---------------------------- MODULE Spec2Model ----------------------------
(***************************************************************************)
(* A model of the Amazon buybox tracker backend (backend/main.py,          *)
(* backend/database.py, backend/alerts.py, backend/scheduler.py).          *)
(*                                                                         *)
(* Eight specifications share the module's variables:                      *)
(*   SpecRetry    scrape_with_retry: the bounded retry loop around         *)
(*                get_amazon_buybox, one step per loop position.           *)
(*   SpecExtract  get_amazon_buybox on a fetched document: the price and   *)
(*                seller fallback chains, the offer-listing fallback and   *)
(*                its merge, and the buybox status.                        *)
(*   SpecStore    the tracked_asins table written by lookup_buybox,        *)
(*                extension_scrape and bulk_add_asins through save_asin.   *)
(*   SpecAlert    check_and_alert on a previous state, a result and the    *)
(*                alert settings.                                          *)
(*   SpecBulk     bulk_start and the thread of _run_bulk_job, one step per *)
(*                position of the thread, with bulk_lookup and             *)
(*                refresh_all_asins writing the same tables, and           *)
(*                bulk_status reading the job.                             *)
(*   SpecParse    parse_price on a currency glyph and an amount text.      *)
(*   SpecSched    start_scheduler and update_scheduler_interval.           *)
(*   SpecPace     the waits a bulk run makes between its identifiers.      *)
(*                                                                         *)
(* Text is a sequence of one-character strings, so that strip, replace,    *)
(* lower, substring search and number parsing are computed, not assumed.   *)
(* Amounts are integers in thousandths (Scale), Python's float restricted  *)
(* to decimals of at most three fraction digits.                           *)
(***************************************************************************)
EXTENDS Integers, Sequences, FiniteSets, TLC

VARIABLES
    \* scrape_with_retry
    rMax,        \* max_retries
    rAttempt,    \* the loop variable attempt; 0 before the first iteration
    rData,       \* data: the last result of get_amazon_buybox
    rPc,         \* "loop" | "sleep" | "returned"
    rWait,       \* wait: the last value handed to time.sleep
    rWaits,      \* how many time.sleep calls have returned
    rHist,       \* the status of every attempt made so far, in order
    rReturned,   \* the value returned
    \* get_amazon_buybox
    xResp,       \* the response to the product page request
    xOffer,      \* the response to the offer-listing request, were it made
    xTrace,      \* the locals of the call: price and seller before the merge,
                 \* and what get_offer_listing_data recovered and returned
    xMyName,     \* MY_SELLER_NAME
    xNow,        \* datetime.now()
    xPc,         \* "ready" | "done"
    xResult,     \* the dictionary returned
    \* the tables and the handlers that write them
    tracked_asins,  \* table tracked_asins: asin -> row
    price_history,  \* table price_history, in insertion order
    produced,       \* what the last handler classified: seller, flags, state
    completed,      \* the last extraction a handler completed, and whether
                    \* it was handed to check_and_alert
    \* the bulk runs and the scheduled refresh
    jobs,           \* _jobs: job_id -> registry entry
    worker,         \* job_id -> the locals of the thread running _run_bulk_job
    bulk_response,  \* what the last call of bulk_lookup returned or raised
    alert_sent,     \* the messages the last refresh_all_asins dispatched
    calls,          \* how many calls of bulk_lookup, refresh_all_asins and
                    \* bulk_status
                    \* have been served
    \* check_and_alert
    aOld,           \* old_status
    aNew,           \* new_data
    aSettings,      \* load_alert_settings()
    aSent,          \* the sends made, in order
    aPc,            \* "ready" | "done"
    \* bulk_status
    polled,         \* the last response of bulk_status
    \* parse_price
    pGlyph,         \* the currency glyph the text starts with, or nothing
    pAmount,        \* the amount text
    pOut,           \* the value returned
    pPc,            \* "ready" | "done"
    \* scheduler.py
    scheduler_running,  \* scheduler.running
    scheduler_jobs,     \* the jobs registered with the scheduler, in order
    interval_hours,     \* _interval_hours
    enabled,            \* _enabled
    settings_file,      \* the content of scheduler_settings.json
    sched_log,          \* the calls made to scheduler.py, in order
    \* the waits between the identifiers of a bulk run
    pace_path,          \* "_run_bulk_job" | "bulk_lookup" | "bulk_url_lookup"
    pace_total,         \* len(asins)
    pace_i,             \* how many identifiers are finished
    pace_sleeps         \* the time.sleep calls made after the last of them

retryVars == <<rMax, rAttempt, rData, rPc, rWait, rWaits, rHist, rReturned>>
extractVars == <<xResp, xOffer, xMyName, xNow, xPc, xResult, xTrace>>

storeVars == <<tracked_asins, price_history, produced, completed>>
bulkVars == <<jobs, worker, bulk_response, alert_sent, calls, polled>>
alertVars == <<aOld, aNew, aSettings, aSent, aPc>>
parseVars == <<pGlyph, pAmount, pOut, pPc>>
schedVars ==
    <<scheduler_running, scheduler_jobs, interval_hours, enabled, settings_file,
      sched_log>>
paceVars == <<pace_path, pace_total, pace_i, pace_sleeps>>
restVars == <<parseVars, schedVars, paceVars>>

vars == <<retryVars, extractVars, storeVars, bulkVars, alertVars, restVars>>

NULL == "None"

----------------------------------------------------------------------------
(* An optional value (x or Python's None) is <<x>> or <<>>.                 *)

None == <<>>
Some(x) == <<x>>
Val(o) == o[1]

----------------------------------------------------------------------------
(* Text: Python str as a sequence of one-character strings.                *)

\* "\xa0" and " ", the no-break spaces parse_price removes.
NBSP == "\\xa0"
NNBSP == "\\u202f"

\* Characters outside ASCII that the source's string literals hold.
POUND == "\\u00a3"
EURO == "\\u20ac"
NOTSIGN == "\\u00ac"
LOWQUOTE == "\\u201a"
CCEDILLA == "\\u00c7"
DIAERESIS == "\\u00a8"

Whitespace == {" ", "\n", "\t", NBSP, NNBSP}
Digits == <<"0", "1", "2", "3", "4", "5", "6", "7", "8", "9">>
UpperCase == <<"A", "B", "C", "D", "E", "F", "G", "H", "I", "J", "K", "L", "M",
               "N", "O", "P", "Q", "R", "S", "T", "U", "V", "W", "X", "Y", "Z">>
LowerCase == <<"a", "b", "c", "d", "e", "f", "g", "h", "i", "j", "k", "l", "m",
               "n", "o", "p", "q", "r", "s", "t", "u", "v", "w", "x", "y", "z">>

Range(seq) == {seq[i] : i \in DOMAIN seq}

IsDigitChar(c) == c \in Range(Digits)
DigitValue(c) == (CHOOSE i \in DOMAIN Digits : Digits[i] = c) - 1

\* \w of the re module.
IsWordChar(c) ==
    c \in Range(Digits) \cup Range(UpperCase) \cup Range(LowerCase) \cup {"_"}

LowerChar(c) ==
    IF c \in Range(UpperCase)
    THEN LowerCase[CHOOSE i \in DOMAIN UpperCase : UpperCase[i] = c]
    ELSE c

\* str.lower()
Lower(s) == [i \in DOMAIN s |-> LowerChar(s[i])]

\* str.strip()
RECURSIVE LStrip(_)
LStrip(s) ==
    IF s # <<>> /\ Head(s) \in Whitespace THEN LStrip(Tail(s)) ELSE s

RECURSIVE RStrip(_)
RStrip(s) ==
    IF s # <<>> /\ s[Len(s)] \in Whitespace
    THEN RStrip(SubSeq(s, 1, Len(s) - 1))
    ELSE s

Strip(s) == RStrip(LStrip(s))

\* s[i:i+len(sub)] == sub
MatchAt(s, i, sub) ==
    /\ i >= 1
    /\ i + Len(sub) - 1 <= Len(s)
    /\ \A k \in 1..Len(sub) : s[i + k - 1] = sub[k]

\* sub in s
Contains(sub, s) == \E i \in 1..(Len(s) + 1) : MatchAt(s, i, sub)

\* str.replace(old, new): leftmost non-overlapping occurrences; old is not empty.
RECURSIVE Replace(_, _, _)
Replace(s, old, new) ==
    IF s = <<>> THEN <<>>
    ELSE IF MatchAt(s, 1, old)
         THEN new \o Replace(SubSeq(s, Len(old) + 1, Len(s)), old, new)
         ELSE <<Head(s)>> \o Replace(Tail(s), old, new)

\* str.replace(c, "") for every c of a sequence of strings, in that order.
RECURSIVE RemoveAll(_, _)
RemoveAll(s, olds) ==
    IF olds = <<>> THEN s
    ELSE RemoveAll(Replace(s, Head(olds), <<>>), Tail(olds))

\* str.isdigit(), for the ASCII digits.
IsDigit(s) == s # <<>> /\ \A i \in DOMAIN s : IsDigitChar(s[i])

\* s.split(" ")[0]
RECURSIVE FirstToken(_)
FirstToken(s) ==
    IF s = <<>> \/ Head(s) = " " THEN <<>>
    ELSE <<Head(s)>> \o FirstToken(Tail(s))

RECURSIVE Join(_, _)
Join(strs, sep) ==
    IF strs = <<>> THEN <<>>
    ELSE IF Len(strs) = 1 THEN Head(strs)
    ELSE Head(strs) \o sep \o Join(Tail(strs), sep)

----------------------------------------------------------------------------
(* Numbers: a float is an integer count of thousandths.                    *)

Scale == 10 * 10 * 10
FracDigits == Len(<<0, 0, 0>>)

RECURSIVE DigitsValue(_)
DigitsValue(s) ==
    IF s = <<>> THEN 0
    ELSE DigitsValue(SubSeq(s, 1, Len(s) - 1)) * 10 + DigitValue(s[Len(s)])

RECURSIVE PadRight(_, _)
PadRight(s, n) == IF Len(s) >= n THEN SubSeq(s, 1, n) ELSE PadRight(s \o <<"0">>, n)

\* float(s) for plain decimals: surrounding whitespace, an optional sign,
\* digits with at most one point and at least one digit.  None is ValueError.
\* Fraction digits past the third are dropped.
ParseFloat(s) ==
    LET t == Strip(s)
        signed == t # <<>> /\ Head(t) \in {"-", "+"}
        body == IF signed THEN Tail(t) ELSE t
        dots == {i \in DOMAIN body : body[i] = "."}
        dot == IF dots = {} THEN Len(body) + 1
               ELSE CHOOSE i \in dots : \A j \in dots : i <= j
        ip == SubSeq(body, 1, dot - 1)
        fp == SubSeq(body, dot + 1, Len(body))
        ok == /\ Cardinality(dots) <= 1
              /\ \A i \in DOMAIN ip : IsDigitChar(ip[i])
              /\ \A i \in DOMAIN fp : IsDigitChar(fp[i])
              /\ Len(ip) + Len(fp) >= 1
        mag == DigitsValue(ip) * Scale + DigitsValue(PadRight(fp, FracDigits))
    IN  IF ~ok THEN None
        ELSE IF signed /\ Head(t) = "-" THEN Some(0 - mag) ELSE Some(mag)

\* Truthiness of a float-or-None: None and 0.0 are falsy.
TruthyNum(o) == o # None /\ Val(o) # 0

\* Truthiness of a str-or-None: None and "" are falsy.
TruthyStr(o) == o # None /\ Val(o) # <<>>

----------------------------------------------------------------------------
(* A parsed document (BeautifulSoup): a sequence of nodes.  An element has *)
(* a tag, an id, a set of classes, attributes and child nodes; a text node *)
(* has tag "#text" and its string.                                         *)

Txt(s) == [tag |-> "#text", id |-> "", cls |-> {}, attrs |-> <<>>, text |-> s,
           kids |-> <<>>]

ElA(tag, id, cls, attrs, kids) ==
    [tag |-> tag, id |-> id, cls |-> cls, attrs |-> attrs, text |-> <<>>,
     kids |-> kids]

El(tag, id, cls, kids) == ElA(tag, id, cls, <<>>, kids)

\* What find returns when nothing matches.
NoNode == [tag |-> NULL, id |-> "", cls |-> {}, attrs |-> <<>>, text |-> <<>>,
           kids |-> <<>>]

\* Every node below a sequence of nodes, in document order.
RECURSIVE Descendants(_)
Descendants(nodes) ==
    IF nodes = <<>> THEN <<>>
    ELSE <<Head(nodes)>> \o Descendants(Head(nodes).kids)
            \o Descendants(Tail(nodes))

\* find_all / find with a predicate on the node.
FindAll(nodes, P(_)) == SelectSeq(Descendants(nodes), P)

Find(nodes, P(_)) ==
    LET all == FindAll(nodes, P) IN IF all = <<>> THEN NoNode ELSE Head(all)

\* The selectors: find(tag, {"id": id}), find(tag, {"class": c}), find(tag).
HasId(n, tag, id) == n.tag = tag /\ n.id = id
HasClass(n, tag, c) == n.tag = tag /\ c \in n.cls
HasTag(n, tag) == n.tag = tag

\* element.get(name): the attribute's value or None.
Attr(n, name) ==
    IF \E i \in DOMAIN n.attrs : n.attrs[i][1] = name
    THEN Some(n.attrs[CHOOSE i \in DOMAIN n.attrs : n.attrs[i][1] = name][2])
    ELSE None

\* The strings get_text(strip=True) joins: every text node's string,
\* stripped, the empty ones dropped.
StrippedStrings(nodes) ==
    LET texts == SelectSeq(Descendants(nodes),
                           LAMBDA n : n.tag = "#text" /\ Strip(n.text) # <<>>)
    IN  [i \in DOMAIN texts |-> Strip(texts[i].text)]

\* node.get_text(sep, strip=True)
GetText(n, sep) == Join(StrippedStrings(n.kids), sep)

\* node.get_text(): no stripping.
RECURSIVE Concat(_)
Concat(strs) == IF strs = <<>> THEN <<>> ELSE Head(strs) \o Concat(Tail(strs))

GetTextRaw(n) ==
    LET texts == SelectSeq(Descendants(n.kids), LAMBDA m : m.tag = "#text")
    IN  Concat([i \in DOMAIN texts |-> texts[i].text])

----------------------------------------------------------------------------
(* parse_price                                                             *)

\* The strings parse_price removes, in the order of its replace calls.  The
\* second and the fourth are, character for character, what the source file
\* holds: U+00AC U+00A3 and U+201A U+00C7 U+00A8.
CurrencyGlyphs ==
    <<<<"R">>, <<NOTSIGN, POUND>>, <<"$">>, <<LOWQUOTE, CCEDILLA, DIAERESIS>>,
      <<"A", "$">>, <<"C", "$">>>>

PositiveOrNoneKeepsAll(v) == v

\* val if val > 0 else None
PositiveOrNone(v) == IF v # None /\ Val(v) > 0 THEN v ELSE None

\* Lines 197-203: which of "," and "." is the decimal separator.
NormalizeSeparators(c) ==
    IF Contains(<<",">>, c) /\ ~Contains(<<".">>, c)
    THEN Replace(Replace(c, <<" ">>, <<>>), <<",">>, <<".">>)
    ELSE IF Contains(<<",">>, c) /\ Contains(<<".">>, c)
    THEN Replace(c, <<",">>, <<>>)
    ELSE Replace(Replace(c, <<" ">>, <<>>), <<",">>, <<>>)

ParsePrice(raw) ==
    IF raw = <<>> THEN None
    ELSE PositiveOrNone(ParseFloat(NormalizeSeparators(
             Strip(RemoveAll(RemoveAll(raw, <<<<NBSP>>, <<NNBSP>>>>),
                             CurrencyGlyphs)))))

----------------------------------------------------------------------------
(* get_amazon_buybox: the price                                            *)

\* price_container_ids, in priority order.
PriceContainerIds ==
    <<"corePriceDisplay_desktop_feature_div", "apex_desktop", "buybox",
      "buyNewSection", "price", "tmmSwatches">>

\* extract_price_from_block
\* "if parsed: return parsed", then "return None"
TruthyOrNone(v) == IF TruthyNum(v) THEN v ELSE None

\* Lines 384-395: the offscreen span of a block.
BlockOffscreen(offscreen) ==
    IF offscreen # NoNode
    THEN TruthyOrNone(ParsePrice(GetText(offscreen, <<>>)))
    ELSE None

\* Lines 381-383: f"{whole}.{frac if frac.isdigit() else '00'}" when whole is
\* a number, else the offscreen span.
BlockAmount(block, price_el, whole, frac) ==
    IF price_el # NoNode /\ IsDigit(whole)
    THEN ParseFloat(whole \o <<".">>
                    \o (IF IsDigit(frac) THEN frac ELSE <<"0", "0">>))
    ELSE BlockOffscreen(Find(block.kids,
                             LAMBDA n : HasClass(n, "span", "a-offscreen")))

\* Lines 378-380: the text of the whole and of the fraction.
BlockWhole(price_el) ==
    Strip(RemoveAll(GetText(price_el, <<>>), <<<<",">>, <<".">>, <<"R">>>>))

BlockFraction(frac_el) ==
    Strip(RemoveAll(IF frac_el # NoNode THEN Strip(GetText(frac_el, <<>>))
                    ELSE <<"0", "0">>,
                    <<<<",">>, <<".">>>>))

BlockParts(block, price_el, frac_el) ==
    BlockAmount(block, price_el, BlockWhole(price_el), BlockFraction(frac_el))

\* extract_price_from_block
ExtractPriceFromBlock(block) ==
    IF block = NoNode THEN None
    ELSE BlockParts(block,
             Find(block.kids, LAMBDA n : HasClass(n, "span", "a-price-whole")),
             Find(block.kids, LAMBDA n : HasClass(n, "span", "a-price-fraction")))

\* for container_id in price_container_ids: ... if price: break
\* The value a loop with "if price: break" leaves in price: the first truthy
\* one, else the one its last iteration gave.
FirstTruthyOrLast(prices) ==
    LET hits == {i \in DOMAIN prices : TruthyNum(prices[i])}
    IN  IF hits = {} THEN prices[Len(prices)]
        ELSE prices[CHOOSE i \in hits : \A j \in hits : i <= j]

ContainerLoop(doc) ==
    FirstTruthyOrLast(
        [i \in DOMAIN PriceContainerIds |->
            ExtractPriceFromBlock(
                Find(doc, LAMBDA n : n.tag # "#text"
                                     /\ n.id = PriceContainerIds[i]))])

\* if not price: for span in soup.find_all("span", {"class": "a-offscreen"})
\* "if val and val > 0: price = val; break"
FirstPositive(vals, price) ==
    LET hits == {i \in DOMAIN vals : TruthyNum(vals[i]) /\ Val(vals[i]) > 0}
    IN  IF hits = {} THEN price
        ELSE vals[CHOOSE i \in hits : \A j \in hits : i <= j]

OffscreenValues(spans) ==
    [i \in DOMAIN spans |-> ParsePrice(GetText(spans[i], <<>>))]

OffscreenScan(doc, price) ==
    IF TruthyNum(price) THEN price
    ELSE FirstPositive(
             OffscreenValues(
                 FindAll(doc, LAMBDA n : HasClass(n, "span", "a-offscreen"))),
             price)

\* price_selectors, in order: <<attribute, value>>.
PriceSelectors ==
    <<<<"id", "priceblock_ourprice">>, <<"id", "priceblock_dealprice">>,
      <<"class", "a-price-whole">>, <<"id", "price_inside_buybox">>,
      <<"class", "priceToPay">>>>

MatchesSelector(n, sel) ==
    /\ n.tag = "span"
    /\ IF sel[1] = "id" THEN n.id = sel[2] ELSE sel[2] \in n.cls

\* The strings the legacy fallback removes (line 428).
LegacyGlyphs == <<<<",">>, <<NOTSIGN, POUND>>, <<"$">>, <<"R">>>>

\* price = float(raw) of the legacy fallback.
LegacyValue(raw) == ParseFloat(raw)

\* if not price: for sel in price_selectors: ... price = float(raw); break
\* "price = float(raw); break" and "except: continue": the first selector
\* whose element holds a text float() accepts decides.
FirstFound(raws, price) ==
    LET hits == {i \in DOMAIN raws : raws[i] # None}
    IN  IF hits = {} THEN price
        ELSE raws[CHOOSE i \in hits : \A j \in hits : i <= j]

LegacyElement(el) ==
    IF el = NoNode THEN None
    ELSE LegacyValue(Strip(RemoveAll(GetText(el, <<>>), LegacyGlyphs)))

LegacyFallback(doc, price) ==
    IF TruthyNum(price) THEN price
    ELSE FirstFound(
             [i \in DOMAIN PriceSelectors |->
                 LegacyElement(
                     Find(doc, LAMBDA n : MatchesSelector(n, PriceSelectors[i])))],
             price)

\* The price of the primary page: result["buybox_price"] at line 435.
PrimaryPrice(doc) ==
    LegacyFallback(doc, OffscreenScan(doc, ContainerLoop(doc)))

----------------------------------------------------------------------------
(* Regular expressions of the seller chain, on text.                       *)

AMAZON == <<"a", "m", "a", "z", "o", "n">>
AmazonCoZa == <<"A", "m", "a", "z", "o", "n", ".", "c", "o", ".", "z", "a">>
SoldBy == <<"S", "o", "l", "d", " ", "b", "y">>

\* re.search(r'amazon', s, re.I)
AmazonToken(s) == Contains(AMAZON, Lower(s))

\* re.search(r'\bamazon\b', s) on a lower-cased s
WordAmazon(s) ==
    \E i \in 1..Len(s) :
        /\ MatchAt(s, i, AMAZON)
        /\ i = 1 \/ ~IsWordChar(s[i - 1])
        /\ i + Len(AMAZON) > Len(s) \/ ~IsWordChar(s[i + Len(AMAZON)])

\* re.search(r'sold by amazon', s, re.I)
SoldByAmazon(s) == Contains(<<"s", "o", "l", "d", " ", "b", "y", " ", "a", "m", "a", "z", "o", "n">>, Lower(s))

\* The whitespace run \s* can cover, from position p.
RECURSIVE WsRun(_, _)
WsRun(s, p) ==
    IF p <= Len(s) /\ s[p] \in Whitespace THEN 1 + WsRun(s, p + 1) ELSE 0

\* \s*lit matches at p
WsThen(s, p, lit) == \E k \in 0..WsRun(s, p) : MatchAt(s, p + k, lit)

\* (?:\s*\.|$|\s*Fulfilled|\s*Ships) matches at p
SoldByEnd(s, p) ==
    \/ WsThen(s, p, <<".">>)
    \/ p = Len(s) + 1
    \/ WsThen(s, p, <<"F", "u", "l", "f", "i", "l", "l", "e", "d">>)
    \/ WsThen(s, p, <<"S", "h", "i", "p", "s">>)

\* (?:\s|$) matches at p
OfferSoldByEnd(s, p) == p = Len(s) + 1 \/ (p <= Len(s) /\ s[p] \in Whitespace)

SellerNameMin == 2
SellerNameMax == 60
OfferNameMax == 50

\* Sold by\s+(GROUP{2,max}?)END from position i: the <<w, g>> the matcher
\* settles on (greedy \s+ of w characters, lazy group of g characters), as a
\* set of at most one element.
SoldByMatch(s, i, excluded, max, End(_, _)) ==
    LET p0 == i + Len(SoldBy)
        ok == {wg \in (1..WsRun(s, p0)) \X (SellerNameMin..max) :
                 /\ p0 + wg[1] + wg[2] - 1 <= Len(s)
                 /\ \A k \in (p0 + wg[1])..(p0 + wg[1] + wg[2] - 1) :
                        s[k] \notin excluded
                 /\ End(s, p0 + wg[1] + wg[2])}
    IN  IF ~MatchAt(s, i, SoldBy) THEN {}
        ELSE {wg \in ok : \A o \in ok :
                 wg[1] > o[1] \/ (wg[1] = o[1] /\ wg[2] <= o[2])}

\* match.group(1).strip() of the leftmost match, or None.
SoldByName(s, excluded, max, End(_, _)) ==
    LET starts == {i \in 1..Len(s) : SoldByMatch(s, i, excluded, max,
    End) # {}}
        i == CHOOSE j \in starts : \A k \in starts : j <= k
        wg == CHOOSE x \in SoldByMatch(s, i, excluded, max, End) : TRUE
        from == i + Len(SoldBy) + wg[1]
    IN  IF starts = {} THEN None
        ELSE Some(Strip(SubSeq(s, from, from + wg[2] - 1)))

\* r'(sent from and sold by|sold and fulfilled by|ships from and sold by)\s*amazon'
SoldPhrases ==
    <<<<"s", "e", "n", "t", " ", "f", "r", "o", "m", " ", "a", "n", "d", " ", "s", "o", "l", "d", " ", "b", "y">>, <<"s", "o", "l", "d", " ", "a", "n", "d", " ", "f", "u", "l", "f", "i", "l", "l", "e", "d", " ", "b", "y">>,
      <<"s", "h", "i", "p", "s", " ", "f", "r", "o", "m", " ", "a", "n", "d", " ", "s", "o", "l", "d", " ", "b", "y">>>>

PhraseThenAmazon(s) ==
    LET l == Lower(s) IN
    \E n \in DOMAIN SoldPhrases : \E i \in 1..Len(l) :
        /\ MatchAt(l, i, SoldPhrases[n])
        /\ WsThen(l, i + Len(SoldPhrases[n]), AMAZON)

----------------------------------------------------------------------------
(* get_amazon_buybox: the seller.  Each strategy yields what it assigns to *)
(* seller (Some text, possibly empty) or None when it assigns nothing.     *)

\* page_text = soup.get_text(" ", strip=True)
PageText(doc) == Join(StrippedStrings(doc), <<" ">>)

NormalizeAmazon(text) == IF AmazonToken(text) THEN Some(AmazonCoZa) ELSE Some(text)

\* 1. a#sellerProfileTriggerId
SellerProfileLink(doc) ==
    LET link == Find(doc, LAMBDA n : HasId(n, "a", "sellerProfileTriggerId"))
    IN  IF link = NoNode THEN None ELSE Some(GetText(link, <<>>))

\* 2. span.offer-display-feature-text-message: the first with a text
OfferFeatureMessage(doc) ==
    LET spans == FindAll(doc, LAMBDA n :
                     HasClass(n, "span", "offer-display-feature-text-message"))
        texts == SelectSeq([i \in DOMAIN spans |-> GetText(spans[i], <<>>)],
                           LAMBDA t : t # <<>>)
    IN  IF texts = <<>> THEN None ELSE NormalizeAmazon(Head(texts))

\* 3. div#merchant-info
MerchantInfo(doc) ==
    LET merchant == Find(doc, LAMBDA n : HasId(n, "div", "merchant-info"))
        a_tag == Find(merchant.kids, LAMBDA n : HasTag(n, "a"))
    IN  IF merchant = NoNode THEN None
        ELSE IF a_tag # NoNode THEN Some(GetText(a_tag, <<>>))
        ELSE IF AmazonToken(GetText(merchant, <<>>)) THEN Some(AmazonCoZa)
        ELSE None

\* 4. div#tabular-buybox: the value of the first row labelled "Sold by"
TabularBuybox(doc) ==
    LET tabular == Find(doc, LAMBDA n : HasId(n, "div", "tabular-buybox"))
        rows == FindAll(tabular.kids,
                        LAMBDA n : HasClass(n, "div", "tabular-buybox-text"))
        label(r) == Find(r.kids, LAMBDA n : HasClass(n, "span", "a-color-secondary"))
        val(r) == Find(r.kids, LAMBDA n : HasClass(n, "span", "a-color-base"))
        hits == SelectSeq(rows, LAMBDA r :
                    /\ label(r) # NoNode
                    /\ val(r) # NoNode
                    /\ Contains(SoldBy, GetTextRaw(label(r))))
    IN  IF tabular = NoNode \/ hits = <<>> THEN None
        ELSE Some(GetText(val(Head(hits)), <<>>))

\* 5. a span of class a-color-secondary reading "sold by amazon"
SecondarySpan(doc) ==
    LET spans == FindAll(doc, LAMBDA n : HasClass(n, "span", "a-color-secondary"))
    IN  IF \E i \in DOMAIN spans : SoldByAmazon(GetText(spans[i], <<>>))
        THEN Some(AmazonCoZa)
        ELSE None

\* 6. "Sold by <name>" in the page text
PageSoldBy(doc) ==
    LET name == SoldByName(PageText(doc), {".", "\n", "|"}, SellerNameMax,
    SoldByEnd)
    IN  IF name = None THEN None ELSE NormalizeAmazon(Val(name))

\* 7. "sent from and sold by amazon" and its variants in the page text
PagePhrase(doc) == IF PhraseThenAmazon(PageText(doc)) THEN Some(AmazonCoZa) ELSE None

\* The candidates in the order the code consults them.
SellerStrategies(doc) ==
    <<SellerProfileLink(doc), OfferFeatureMessage(doc), MerchantInfo(doc),
      TabularBuybox(doc), SecondarySpan(doc), PageSoldBy(doc),
    PagePhrase(doc)>>

\* if not seller: <strategy>: a truthy seller is kept; otherwise the strategy's
\* assignment, if it makes one, replaces it.
RECURSIVE FallbackChainLastWins(_, _)
FallbackChainLastWins(seller, cands) ==
    IF cands = <<>> THEN seller
    ELSE FallbackChainLastWins(IF Head(cands) # None THEN Head(cands)
                               ELSE seller,
                               Tail(cands))

RECURSIVE FallbackChain(_, _)
FallbackChain(seller, cands) ==
    IF cands = <<>> THEN seller
    ELSE FallbackChain(IF ~TruthyStr(seller) /\ Head(cands) # None
                       THEN Head(cands) ELSE seller,
                       Tail(cands))

\* The seller of the primary page: seller at line 515.
PrimarySeller(doc) == FallbackChain(None, SellerStrategies(doc))

----------------------------------------------------------------------------
(* get_offer_listing_data.  A response is [outcome, doc]: outcome "200",   *)
(* another status code, or an exception of the transport.                  *)

Unknown == <<"U", "n", "k", "n", "o", "w", "n">>

Response(outcome, doc) == [outcome |-> outcome, doc |-> doc]

OfferClasses == {"a-row", "a-spacing-mini", "olpOffer"}
SellerNameClasses == {"a-spacing-none", "olpSellerName"}

\* The price of the first offer block.
\* Lines 243-252: the whole and the fraction of span.a-price.
OfferAmount(price_span, price_whole, price_fraction) ==
    IF price_span # NoNode /\ price_whole # NoNode
    THEN ParseFloat(
             Strip(RemoveAll(GetText(price_whole, <<>>),
                             <<<<",">>, <<" ">>, <<"R">>>>))
             \o <<".">>
             \o (IF price_fraction # NoNode
                 THEN Strip(GetText(price_fraction, <<>>))
                 ELSE <<"0", "0">>))
    ELSE None

\* Lines 254-258: if not price: the offscreen span, when there is one.
OfferOffscreen(price, offscreen) ==
    IF ~TruthyNum(price) /\ offscreen # NoNode
    THEN ParsePrice(GetText(offscreen, <<>>))
    ELSE price

OfferSpanAmount(price_span) ==
    OfferAmount(price_span,
        Find(price_span.kids, LAMBDA n : HasClass(n, "span", "a-price-whole")),
        Find(price_span.kids, LAMBDA n : HasClass(n, "span", "a-price-fraction")))

\* The price of the first offer block.
OfferPrice(first_offer) ==
    OfferOffscreen(
        OfferSpanAmount(
            Find(first_offer.kids, LAMBDA n : HasClass(n, "span", "a-price"))),
        Find(first_offer.kids, LAMBDA n : HasClass(n, "span", "a-offscreen")))

\* Method 1: h3.olpSellerName: its link, else its span, else its own text.
OfferSellerHeading(first_offer) ==
    LET seller_h3 == Find(first_offer.kids, LAMBDA n :
                         n.tag = "h3" /\ SellerNameClasses \subseteq n.cls)
        seller_link == Find(seller_h3.kids, LAMBDA n : HasTag(n, "a"))
        seller_span == Find(seller_h3.kids, LAMBDA n : HasTag(n, "span"))
        seller_text == GetText(seller_h3, <<>>)
    IN  IF seller_h3 = NoNode THEN None
        ELSE IF seller_link # NoNode THEN Some(GetText(seller_link, <<>>))
        ELSE IF seller_span # NoNode THEN Some(GetText(seller_span, <<>>))
        ELSE IF seller_text # <<>> /\ seller_text # AmazonCoZa THEN Some(seller_text)
        ELSE None

\* Method 2: a link whose aria-label mentions "seller".
OfferSellerLink(first_offer) ==
    LET label(n) == Attr(n, "aria-label")
        merchant_link ==
            Find(first_offer.kids, LAMBDA n :
                /\ n.tag = "a"
                /\ TruthyStr(label(n))
                /\ Contains(<<"s", "e", "l", "l", "e", "r">>, Lower(Val(label(n)))))
    IN  IF merchant_link = NoNode THEN None
        ELSE Some(GetText(merchant_link, <<>>))

\* Method 3: the offer block's text.
OfferSellerText(first_offer) ==
    LET offer_text == GetText(first_offer, <<" ">>)
        l == Lower(offer_text)
    IN  IF Contains(<<"s", "o", "l", "d", " ", "b", "y", " ", "a", "m", "a", "z", "o", "n", ".", "c", "o", ".", "z", "a">>, l)
           \/ Contains(<<"s", "h", "i", "p", "s", " ", "f", "r", "o", "m", " ", "a", "n", "d", " ", "s", "o", "l", "d", " ", "b", "y", " ", "a", "m", "a", "z", "o", "n">>, l)
        THEN Some(AmazonCoZa)
        ELSE SoldByName(offer_text, {".", "\n"}, OfferNameMax, OfferSoldByEnd)

OfferSeller(first_offer) ==
    FallbackChain(None, <<OfferSellerHeading(first_offer),
                          OfferSellerLink(first_offer),
                          OfferSellerText(first_offer)>>)

\* if price and seller: return {...}; return None
OfferComplete(price, seller) == TruthyNum(price) /\ TruthyStr(seller)

\* The value get_offer_listing_data returns: Some record, or None.
\* Lines 300-307.
OfferRecord(price, seller) ==
    IF OfferComplete(price, seller)
    THEN Some([price |-> price, seller |-> seller])
    ELSE None

FirstOffer(offer_divs) ==
    IF offer_divs = <<>> THEN None
    ELSE OfferRecord(OfferPrice(Head(offer_divs)),
                     OfferSeller(Head(offer_divs)))

\* The value get_offer_listing_data returns: Some record, or None.
\* offer_divs = soup.find_all("div", {"class": "a-row a-spacing-mini olpOffer"})
OfferDivs(resp) ==
    FindAll(resp.doc, LAMBDA n : n.tag = "div" /\ OfferClasses \subseteq n.cls)

\* The value get_offer_listing_data returns: Some record, or None.
GetOfferListingData(resp) ==
    IF resp.outcome # "200" THEN None
    ELSE FirstOffer(OfferDivs(resp))

\* What a call recovered from the first offer block before line 302, and what
\* it returned.
OfferTrace(resp) ==
    IF resp.outcome # "200" \/ OfferDivs(resp) = <<>>
    THEN [called |-> TRUE, block |-> FALSE, price |-> None, seller |-> None,
          returned |-> GetOfferListingData(resp)]
    ELSE [called |-> TRUE, block |-> TRUE,
          price |-> OfferPrice(Head(OfferDivs(resp))),
          seller |-> OfferSeller(Head(OfferDivs(resp))),
          returned |-> GetOfferListingData(resp)]

----------------------------------------------------------------------------
(* get_amazon_buybox: the other fields, the merge and the status.          *)

\* MY_SELLER_NAME when the environment does not set it.
DefaultSellerName == <<"B", "o", "n", "o", "l", "o", " ", "O", "n", "l", "i", "n", "e">>

\* title_el.get_text(strip=True) if title_el else "Unknown"
Title(doc) ==
    LET span == Find(doc, LAMBDA n : HasId(n, "span", "productTitle"))
        h1 == Find(doc, LAMBDA n : HasId(n, "h1", "title"))
        title_el == IF span # NoNode THEN span ELSE h1
    IN  IF title_el # NoNode THEN GetText(title_el, <<>>) ELSE Unknown

\* The marketplace domains and the currency of each (lines 436-447).
CoZa == <<"a", "m", "a", "z", "o", "n", ".", "c", "o", ".", "z", "a">>
CoUk == <<"a", "m", "a", "z", "o", "n", ".", "c", "o", ".", "u", "k">>
DotCom == <<"a", "m", "a", "z", "o", "n", ".", "c", "o", "m">>

Currency(marketplace) ==
    IF Contains(CoZa, marketplace) THEN "ZAR"
    ELSE IF Contains(CoUk, marketplace) THEN "GBP"
    ELSE IF Contains(<<"a", "m", "a", "z", "o", "n", ".", "d", "e">>, marketplace)
            \/ Contains(<<"a", "m", "a", "z", "o", "n", ".", "f", "r">>, marketplace) THEN "EUR"
    ELSE IF Contains(<<"a", "m", "a", "z", "o", "n", ".", "c", "a">>, marketplace) THEN "CAD"
    ELSE IF Contains(<<"a", "m", "a", "z", "o", "n", ".", "c", "o", "m", ".", "a", "u">>, marketplace) THEN "AUD"
    ELSE "USD"

\* Lines 517-527: the offer-listing page is consulted when the seller or the
\* price of the primary page is falsy.
NeedsFallback(price, seller) == ~TruthyStr(seller) \/ ~TruthyNum(price)

\* if not price and offer_data.get("price"): price = offer_data["price"]
MergePrice(price, offer_data) ==
    IF offer_data # None /\ ~TruthyNum(price) /\ TruthyNum(Val(offer_data).price)
    THEN Val(offer_data).price
    ELSE price

\* if not seller and offer_data.get("seller"): seller = offer_data["seller"]
MergeSeller(seller, offer_data) ==
    IF offer_data # None /\ ~TruthyStr(seller) /\ TruthyStr(Val(offer_data).seller)
    THEN Val(offer_data).seller
    ELSE seller

\* seller_lower = (seller or "").lower().strip()
SellerLower(seller) == Strip(Lower(IF TruthyStr(seller) THEN Val(seller) ELSE <<>>))

IsAmazon(seller) == WordAmazon(SellerLower(seller))

IsMine(seller, my_name) == Contains(Lower(my_name), SellerLower(seller))

\* Lines 537-542.
BuyboxStatusAmazonFirst(seller, is_amazon, is_mine) ==
    IF is_amazon THEN "amazon"
    ELSE IF is_mine THEN "winning"
    ELSE IF TruthyStr(seller) THEN "losing"
    ELSE "unknown"

BuyboxStatus(seller, is_amazon, is_mine) ==
    IF is_mine THEN "winning"
    ELSE IF is_amazon THEN "amazon"
    ELSE IF TruthyStr(seller) THEN "losing"
    ELSE "unknown"

\* rating_el.get("title", "").split(" ")[0], then float() or None
Rating(doc) ==
    LET rating_el == Find(doc, LAMBDA n : HasId(n, "span", "acrPopover"))
        title == Attr(rating_el, "title")
        rating_text == FirstToken(IF title = None THEN <<>> ELSE Val(title))
    IN  IF rating_el = NoNode \/ rating_text = <<>> THEN None
        ELSE ParseFloat(rating_text)

\* int(review_text) if review_text.isdigit() else None
ReviewCount(doc) ==
    LET reviews_el == Find(doc, LAMBDA n : HasId(n, "span", "acrCustomerReviewText"))
        token == FirstToken(GetText(reviews_el, <<>>))
        review_text == Strip(RemoveAll(token, <<<<"(">>, <<")">>, <<",">>>>))
    IN  IF reviews_el # NoNode /\ IsDigit(review_text)
        THEN Some(DigitsValue(review_text))
        ELSE None

Availability(doc) ==
    LET avail_el == Find(doc, LAMBDA n : HasId(n, "div", "availability"))
    IN  IF avail_el # NoNode THEN GetText(avail_el, <<>>) ELSE Unknown

\* s.split('"'): the pieces between the double quotes.
RECURSIVE SplitQuote(_)
SplitQuote(s) ==
    LET qs == {i \in DOMAIN s : s[i] = "\""}
        q == CHOOSE i \in qs : \A j \in qs : i <= j
    IN  IF qs = {} THEN <<s>>
        ELSE <<SubSeq(s, 1, q - 1)>> \o SplitQuote(SubSeq(s, q + 1, Len(s)))

\* Line 571.  [raised |-> TRUE] is the IndexError of split('"')[1].
ImageUrl(doc) ==
    LET landing == Find(doc, LAMBDA n : HasId(n, "img", "landingImage"))
        front == Find(doc, LAMBDA n : HasId(n, "img", "imgBlkFront"))
        img_el == IF landing # NoNode THEN landing ELSE front
        src == Attr(img_el, "src")
        dyn == Attr(img_el, "data-a-dynamic-image")
        parts == SplitQuote(IF dyn = None THEN <<>> ELSE Val(dyn))
    IN  IF img_el = NoNode THEN [raised |-> FALSE, value |-> None]
        ELSE IF TruthyStr(src) THEN [raised |-> FALSE, value |-> src]
        ELSE IF Len(parts) < 2 THEN [raised |-> TRUE, value |-> None]
        ELSE [raised |-> FALSE, value |-> Some(parts[2])]

\* The dictionary of a failed attempt (lines 330-345, 576-581).
Failure(asin, status, error, now) ==
    [asin |-> asin, status |-> status, error |-> error, scraped_at |-> now]

\* Lines 529-573: the result once price and seller are settled.
BuildResult(asin, marketplace, doc, price, seller, is_amazon, is_mine, image, now) ==
    IF image.raised
    THEN Failure(asin, "error", "list index out of range", now)
    ELSE [asin |-> asin,
          marketplace |-> marketplace,
          scraped_at |-> now,
          status |-> "success",
          title |-> Title(doc),
          buybox_price |-> price,
          currency |-> Currency(marketplace),
          buybox_seller |-> IF TruthyStr(seller) THEN Val(seller) ELSE Unknown,
          is_amazon_seller |-> is_amazon,
          is_my_buybox |-> is_mine,
          buybox_status |-> BuyboxStatus(seller, is_amazon, is_mine),
          rating |-> Rating(doc),
          review_count |-> ReviewCount(doc),
          availability |-> Availability(doc),
          image_url |-> image.value]

Classify(asin, marketplace, doc, price, seller, my_name, now) ==
    BuildResult(asin, marketplace, doc, price, seller, IsAmazon(seller),
                IsMine(seller, my_name), ImageUrl(doc), now)

\* Lines 516-527.
Merge(asin, marketplace, doc, price, seller, offer_data, my_name, now) ==
    Classify(asin, marketplace, doc, MergePrice(price, offer_data),
             MergeSeller(seller, offer_data), my_name, now)

OfferFallback(price, seller, offer_resp) ==
    IF NeedsFallback(price, seller) THEN GetOfferListingData(offer_resp)
    ELSE None

Extract(asin, marketplace, doc, price, seller, offer_resp, my_name, now) ==
    Merge(asin, marketplace, doc, price, seller,
          OfferFallback(price, seller, offer_resp), my_name, now)

\* The locals of a call that fetched a document: price and seller at line
\* 516, the call of get_offer_listing_data at line 519 if it is made, and
\* price and seller at line 528.
NotCalled ==
    [called |-> FALSE, block |-> FALSE, price |-> None, seller |-> None,
     returned |-> None]

LocalsWith(price, seller, offer) ==
    [fetched |-> TRUE, price |-> price, seller |-> seller, offer |-> offer,
     merged_price |-> MergePrice(price, offer.returned),
     merged_seller |-> MergeSeller(seller, offer.returned)]

LocalsAt(price, seller, offer_resp) ==
    LocalsWith(price, seller,
               IF NeedsFallback(price, seller) THEN OfferTrace(offer_resp)
               ELSE NotCalled)

NoTrace ==
    [fetched |-> FALSE, price |-> None, seller |-> None, offer |-> NotCalled,
     merged_price |-> None, merged_seller |-> None]

Locals(resp, offer_resp) ==
    IF resp.outcome # "200" THEN NoTrace
    ELSE LocalsAt(PrimaryPrice(resp.doc), PrimarySeller(resp.doc), offer_resp)

\* get_amazon_buybox, given the responses of the product page and of the
\* offer-listing page, the configured seller name and the clock.
GetAmazonBuybox(asin, marketplace, resp, offer_resp, my_name, now) ==
    IF resp.outcome = "503"
    THEN Failure(asin, "blocked", "Amazon blocked the request (503)", now)
    ELSE IF resp.outcome = "timeout"
    THEN Failure(asin, "error", "Request timed out", now)
    ELSE IF resp.outcome # "200"
    THEN Failure(asin, "error", resp.outcome, now)
    ELSE Extract(asin, marketplace, resp.doc, PrimaryPrice(resp.doc),
                 PrimarySeller(resp.doc), offer_resp, my_name, now)

----------------------------------------------------------------------------
(* The documents get_amazon_buybox is run on: a price part, a seller part  *)
(* and the remaining elements, in that order.                              *)

Span(cls, s) == El("span", "", {cls}, <<Txt(s)>>)
SpanId(id, s) == El("span", id, {}, <<Txt(s)>>)
Div(id, kids) == El("div", id, {}, kids)

AcmeTraders == <<"A", "c", "m", "e", " ", "T", "r", "a", "d", "e", "r", "s">>

\* <span class="a-price-whole">1,299<span class="a-price-decimal">.</span></span>
WholeWithPoint ==
    El("span", "", {"a-price-whole"},
       <<Txt(<<"1", ",", "2", "9", "9">>), Span("a-price-decimal", <<".">>)>>)

PriceParts ==
    { <<>>,
      \* the first container holds a whole and a fraction
      <<Div("corePriceDisplay_desktop_feature_div",
            <<WholeWithPoint, Span("a-price-fraction", <<"0", "0">>)>>)>>,
      \* the last container holds a whole amount of zero
      <<Div("tmmSwatches", <<Span("a-price-whole", <<"0">>)>>)>>,
      \* only an offscreen span, outside every container
      <<Span("a-offscreen", <<"R", "1", " ", "2", "9", "9", ",", "0", "0">>)>>,
      \* an offscreen span that parses to nothing, then one that parses
      <<Span("a-offscreen", <<"R", "0", ",", "0", "0">>), Span("a-offscreen", <<"$", "1", "2", ".", "9", "9">>)>>,
      \* an offscreen span that parses to nothing
      <<Span("a-offscreen", <<"R", "0", ",", "0", "0">>)>>,
      \* only legacy price elements
      <<SpanId("priceblock_ourprice", <<"-", "5">>)>>,
      <<SpanId("priceblock_dealprice", <<"R", "0", ".", "0", "0">>)>>,
      <<SpanId("price_inside_buybox", <<"n", "/", "a">>), Span("priceToPay", <<"$", "1", ",", "2", "9", "9", ".", "5", "0">>)>>,
      \* a container whose whole is no number but whose offscreen text is
      <<Div("buybox", <<Span("a-price-whole", <<"1", NBSP, "2", "9", "9">>),
                        Span("a-offscreen", <<"R", "1", NBSP, "2", "9", "9", ",", "0", "0">>)>>)>> }

SellerLinkEl(s) == El("a", "sellerProfileTriggerId", {}, <<Txt(s)>>)

SellerParts ==
    { <<>>,
      <<SellerLinkEl(DefaultSellerName)>>,
      <<SellerLinkEl(Unknown)>>,
      <<SellerLinkEl(<<"A", "m", "a", "z", "o", "n", " ", "B", "o", "n", "o", "l", "o", " ", "O", "n", "l", "i", "n", "e">>)>>,
      <<SellerLinkEl(<<"A", "m", "a", "z", "o", "n", "i", "a", " ", "B", "o", "o", "k", "s">>)>>,
      <<SellerLinkEl(<<>>)>>,
      <<Span("offer-display-feature-text-message", <<" ">>),
        Span("offer-display-feature-text-message", <<"a", "m", "a", "z", "o", "n">>)>>,
      <<Div("merchant-info", <<Txt(<<"S", "o", "l", "d", " ", "b", "y", " ">>), El("a", "", {}, <<Txt(AcmeTraders)>>)>>)>>,
      <<Div("merchant-info", <<Txt(<<"D", "i", "s", "p", "a", "t", "c", "h", "e", "d", " ", "f", "r", "o", "m", " ", "a", "n", "d", " ", "s", "o", "l", "d", " ", "b", "y", " ", "A", "m", "a", "z", "o", "n", ".">>)>>)>>,
      <<Div("tabular-buybox",
            <<El("div", "", {"tabular-buybox-text"},
                 <<Span("a-color-secondary", <<"S", "h", "i", "p", "s", " ", "f", "r", "o", "m">>),
                   Span("a-color-base", <<"A", "m", "a", "z", "o", "n">>)>>),
              El("div", "", {"tabular-buybox-text"},
                 <<Span("a-color-secondary", <<"S", "o", "l", "d", " ", "b", "y">>),
                   Span("a-color-base", AcmeTraders)>>)>>)>>,
      <<Span("a-color-secondary", <<"S", "e", "n", "t", " ", "f", "r", "o", "m", " ", "a", "n", "d", " ", "s", "o", "l", "d", " ", "b", "y", " ", "A", "m", "a", "z", "o", "n", ".", "c", "o", ".", "z", "a">>)>>,
      <<Div("", <<Txt(<<"S", "o", "l", "d", " ", "b", "y", " ", "A", "c", "m", "e", " ", "T", "r", "a", "d", "e", "r", "s", ".", " ", "S", "h", "i", "p", "s", " ", "f", "r", "o", "m", " ", "X">>)>>)>>,
      <<Div("", <<Txt(<<"s", "h", "i", "p", "s", " ", "f", "r", "o", "m", " ", "a", "n", "d", " ", "s", "o", "l", "d", " ", "b", "y", " ", " ", "a", "m", "a", "z", "o", "n">>)>>)>>,
      \* an empty seller link, and a later strategy that matches
      <<SellerLinkEl(<<>>), Div("", <<Txt(<<"S", "o", "l", "d", " ", "b", "y", " ", "A", "c", "m", "e", " ", "T", "r", "a", "d", "e", "r", "s", ".">>)>>)>>,
      \* two strategies match
      <<SellerLinkEl(DefaultSellerName),
        Span("a-color-secondary", <<"s", "o", "l", "d", " ", "b", "y", " ", "A", "m", "a", "z", "o", "n">>)>> }

ImgSrc == <<"h", "t", "t", "p", ":", "/", "/", "i", "m", "g", "/", "1", ".", "j", "p", "g">>

\* {"http://img/1.jpg":[1,1]}
DynamicImage == <<"{", "\"">> \o ImgSrc \o <<"\"", ":", "[", "1", ",", "1", "]", "}">>

ExtraParts ==
    { <<>>,
      <<SpanId("productTitle", <<" ", "K", "e", "t", "t", "l", "e", " ">>),
        ElA("span", "acrPopover", {}, <<<<"title", <<"4", ".", "5", " ", "o", "u", "t", " ", "o", "f", " ", "5", " ", "s", "t", "a", "r", "s">>>>>>, <<>>),
        SpanId("acrCustomerReviewText", <<"(", "1", ",", "2", "3", "4", ")", " ", "r", "a", "t", "i", "n", "g", "s">>),
        Div("availability", <<Txt(<<"I", "n", " ", "s", "t", "o", "c", "k">>)>>),
        ElA("img", "landingImage", {}, <<<<"src", ImgSrc>>>>, <<>>)>>,
      \* an image that carries only the dynamic-image attribute
      <<ElA("img", "imgBlkFront", {}, <<<<"data-a-dynamic-image", DynamicImage>>>>, <<>>)>>,
      \* a rating title whose first token is a number above five
      <<ElA("span", "acrPopover", {}, <<<<"title", <<"9", ".", "9", " ", "o", "u", "t", " ", "o", "f", " ", "5", " ", "s", "t", "a", "r", "s">>>>>>, <<>>)>>,
      \* an image with neither attribute
      <<ElA("img", "landingImage", {}, <<>>, <<>>)>> }

Documents ==
    {p \o s : p \in PriceParts, s \in SellerParts}
    \cup {<<Span("a-offscreen", <<"R", "1", " ", "2", "9", "9", ",", "0", "0">>), SellerLinkEl(AcmeTraders)>> \o e :
              e \in ExtraParts}

\* The responses to the product page request: a document with status 200, or
\* a failure of the request.
PageResponses ==
    {Response("200", d) : d \in Documents}
    \cup {Response(o, <<>>) : o \in {"503", "404", "timeout", "raise"}}

OfferDiv(kids) == El("div", "", OfferClasses, kids)
OfferPriceSpan(whole, frac) ==
    El("span", "", {"a-price"},
       <<Span("a-price-whole", whole), Span("a-price-fraction", frac)>>)
SellerHeading(kids) == El("h3", "", SellerNameClasses, kids)

\* The first offer blocks of the offer-listing page.
OfferBlocks ==
    { \* a price and a seller
      <<OfferPriceSpan(<<"1", ",", "4", "9", "9">>, <<"0", "0">>),
        SellerHeading(<<El("a", "", {}, <<Txt(AcmeTraders)>>)>>)>>,
      <<Span("a-offscreen", <<"R", "1", " ", "4", "9", "9", ",", "0", "0">>),
        ElA("a", "", {}, <<<<"aria-label", <<"S", "e", "l", "l", "e", "r", " ", "i", "n", "f", "o">>>>>>, <<Txt(DefaultSellerName)>>)>>,
      \* a price and no seller
      <<OfferPriceSpan(<<"1", ",", "4", "9", "9">>, <<"0", "0">>)>>,
      \* a seller and no price
      <<SellerHeading(<<El("span", "", {}, <<Txt(AcmeTraders)>>)>>)>>,
      \* a negative amount, and the seller in the text
      <<OfferPriceSpan(<<"-", "5">>, <<"0", "0">>), Txt(<<"S", "o", "l", "d", " ", "b", "y", " ", "A", "m", "a", "z", "o", "n", ".", "c", "o", ".", "z", "a">>)>>,
      \* an amount of zero
      <<OfferPriceSpan(<<"0">>, <<"0", "0">>), Txt(<<"S", "o", "l", "d", " ", "b", "y", " ", "A", "c", "m", "e", " ", "T", "r", "a", "d", "e", "r", "s">>)>>,
      \* neither
      <<Txt(<<"C", "u", "r", "r", "e", "n", "t", "l", "y", " ", "u", "n", "a", "v", "a", "i", "l", "a", "b", "l", "e">>)>> }

OfferResponses ==
    {Response("200", <<OfferDiv(b)>>) : b \in OfferBlocks}
    \cup {Response("200", <<>>), Response("503", <<>>), Response("raise", <<>>)}

\* The values of MY_SELLER_NAME: the default, and the empty string of an
\* environment variable set to nothing.
SellerNames == {DefaultSellerName, <<>>}

\* Bound on the clock.
MaxClock == 2

TheAsin == <<"B", "0", "0", "0", "1", "2", "3", "4", "5", "6">>

----------------------------------------------------------------------------
(* SpecExtract: one call of get_amazon_buybox.                             *)

NoResult == [status |-> NULL]

\* The arguments of the call and what the requests are answered with.
ExtractInputs ==
    /\ xResp \in PageResponses
    /\ xOffer \in OfferResponses
    /\ xMyName \in SellerNames
    /\ xNow \in 1..MaxClock
    /\ xPc = "ready"
    /\ xResult = NoResult
    /\ xTrace = NoTrace

ExtractCall ==
    /\ xPc = "ready"
    /\ xResult' = GetAmazonBuybox(TheAsin, CoZa, xResp, xOffer, xMyName, xNow)
    /\ xTrace' = Locals(xResp, xOffer)
    /\ xPc' = "done"
    /\ UNCHANGED <<xResp, xOffer, xMyName, xNow>>

----------------------------------------------------------------------------
(* The tables (database.py).  A row holds Some value or None (NULL) in     *)
(* each column; the time columns scraped_at, created_at and updated_at are *)
(* not modelled.  A dictionary is a record; the keys of OptionKeys hold    *)
(* Some value or None, the others a plain value.                           *)

Columns ==
    {"asin", "title", "image_url", "marketplace", "buybox_price",
     "buybox_seller", "buybox_status", "currency", "rating", "review_count",
     "availability", "is_amazon_seller"}

OptionKeys == {"buybox_price", "rating", "review_count", "image_url"}

\* data.get(key, default)
Get(data, key, default) ==
    IF key \notin DOMAIN data THEN default
    ELSE IF key \in OptionKeys THEN data[key]
    ELSE Some(data[key])

ZAR == "ZAR"

\* TrackedASIN(asin=asin, title=data.get("title"), ...)
NewRecord(data) ==
    [asin |-> Get(data, "asin", None),
     title |-> Get(data, "title", None),
     image_url |-> Get(data, "image_url", None),
     marketplace |-> Get(data, "marketplace", Some(CoZa)),
     buybox_price |-> Get(data, "buybox_price", None),
     buybox_seller |-> Get(data, "buybox_seller", None),
     buybox_status |-> Get(data, "buybox_status", None),
     currency |-> Get(data, "currency", Some(ZAR)),
     rating |-> Get(data, "rating", None),
     review_count |-> Get(data, "review_count", None),
     availability |-> Get(data, "availability", None),
     is_amazon_seller |-> Get(data, "is_amazon_seller", Some(FALSE))]

\* for key, value in data.items(): if hasattr(existing, key) and key not in
\* ("asin", "created_at"): setattr(existing, key, value)
UpdateRecordFromGet(existing, data) ==
    [k \in Columns |-> IF k # "asin" THEN Get(data, k, None) ELSE existing[k]]

UpdateRecord(existing, data) ==
    [k \in Columns |->
        IF k \in DOMAIN data /\ k # "asin" THEN Get(data, k, None)
        ELSE existing[k]]

\* The table with the row of key a set to row.
Put(table, a, row) ==
    [k \in DOMAIN table \cup {a} |-> IF k = a THEN row ELSE table[k]]

\* save_asin
SaveAsin(table, data) ==
    IF data.asin \in DOMAIN table
    THEN Put(table, data.asin, UpdateRecord(table[data.asin], data))
    ELSE Put(table, data.asin, NewRecord(data))

\* if not data.get("buybox_price"): return
HasPrice(data) ==
    "buybox_price" \in DOMAIN data /\ TruthyNum(data.buybox_price)

\* save_price_history
SavePriceHistory(history, data) ==
    IF ~HasPrice(data) THEN history
    ELSE Append(history,
                [asin |-> Get(data, "asin", None),
                 marketplace |-> Get(data, "marketplace", Some(CoZa)),
                 price |-> data.buybox_price,
                 seller |-> Get(data, "buybox_seller", None),
                 status |-> Get(data, "buybox_status", None)])

----------------------------------------------------------------------------
(* The handlers that write the tables (main.py).                           *)

UpperChar(c) ==
    IF c \in Range(LowerCase)
    THEN UpperCase[CHOOSE i \in DOMAIN LowerCase : LowerCase[i] = c]
    ELSE c

\* str.upper()
Upper(s) == [i \in DOMAIN s |-> UpperChar(s[i])]

AsinLength == 10

\* re.compile(r'^[A-Z0-9]{10}$').match(asin)
AsinPattern(asin) ==
    /\ Len(asin) = AsinLength
    /\ \A i \in DOMAIN asin : asin[i] \in Range(UpperCase) \cup Range(Digits)

\* What a handler classified.  A handler that classifies nothing leaves the
\* seller empty and the state NULL.
Produced(path, http, seller, is_amazon, is_mine, buybox_status) ==
    [path |-> path, http |-> http, seller |-> seller, is_amazon |-> is_amazon,
     is_mine |-> is_mine, buybox_status |-> buybox_status]

Unclassified(path, http) == Produced(path, http, <<>>, FALSE, FALSE, NULL)

Ok == 200
BadRequest == 400

\* An extraction a handler completed: the path, the identifier, and whether
\* the handler passed the stored state and the result to check_and_alert.
Completion(path, asin, handed) ==
    [path |-> path, asin |-> asin, handed |-> handed]

NoCompletion == Completion(NULL, <<>>, FALSE)

\* The bound on the rows of price_history.
MaxHistory == 1

HistoryHasRoom(data) == ~HasPrice(data) \/ Len(price_history) < MaxHistory

\* --- extension_scrape ---

\* seller = data.get("seller") or "Unknown"
ExtSeller(data) == IF TruthyStr(data.seller) THEN Val(data.seller) ELSE Unknown

\* ext_status = data.get("buybox_status", "unknown"); None is the absent key.
ExtStatus(data) ==
    IF data.buybox_status = None THEN "unknown" ELSE Val(data.buybox_status)

\* bool(data.get("is_amazon", False)) or bool(re.search(r'\bamazon\b', seller, re.I))
ExtIsAmazon(data, seller) == data.is_amazon \/ WordAmazon(Lower(seller))

\* MY_SELLER_NAME.lower() in seller.lower() if seller else False
ExtIsMine(seller, my_name) ==
    IF seller # <<>> THEN Contains(Lower(my_name), Lower(seller)) ELSE FALSE

\* Lines 809-818.
ExtBuyboxStatus(seller, is_amazon, is_mine, ext_status) ==
    IF is_mine THEN "winning"
    ELSE IF is_amazon THEN "amazon"
    ELSE IF ext_status # "" /\ ext_status # "unknown" THEN ext_status
    ELSE IF seller # <<>> /\ seller # Unknown THEN "losing"
    ELSE "unknown"

\* (data.get("marketplace") or "amazon.co.za").replace("www.", "")
ExtMarketplace(data) ==
    Replace(IF TruthyStr(data.marketplace) THEN Val(data.marketplace) ELSE CoZa,
            <<"w", "w", "w", ".">>, <<>>)

\* db_data (lines 824-838), for a payload that carries asin, title, seller,
\* price, marketplace, is_amazon and buybox_status and no other key.
ExtDbData(data, asin, seller, is_amazon, buybox_status) ==
    [asin |-> asin,
     title |-> data.title,
     image_url |-> None,
     marketplace |-> ExtMarketplace(data),
     buybox_price |-> data.price,
     buybox_seller |-> seller,
     buybox_status |-> buybox_status,
     currency |-> ZAR,
     rating |-> None,
     review_count |-> None,
     availability |-> Unknown,
     is_amazon_seller |-> is_amazon]

\* Lines 843-853: every key of db_data is set on an existing row; a new row
\* is TrackedASIN(**db_data).
ExtSave(table, db_data) ==
    Put(table, db_data.asin, [k \in Columns |-> Get(db_data, k, None)])

\* The dictionary handed to save_price_history at line 859.
ExtHistoryData(db_data) ==
    [asin |-> db_data.asin, marketplace |-> db_data.marketplace,
     buybox_price |-> db_data.buybox_price,
     buybox_seller |-> db_data.buybox_seller,
     buybox_status |-> db_data.buybox_status]

\* The classification of a payload whose asin is accepted.
ExtClassified(seller, is_amazon, is_mine, ext_status) ==
    Produced("extension_scrape", Ok, seller, is_amazon, is_mine,
             ExtBuyboxStatus(seller, is_amazon, is_mine, ext_status))

ExtClassify(data, seller, my_name) ==
    ExtClassified(seller, ExtIsAmazon(data, seller), ExtIsMine(seller, my_name),
                  ExtStatus(data))

\* Lines 840-876: the row, then the history entry if there is a price.
ExtStore(db_data, out) ==
    /\ HistoryHasRoom(db_data)
    /\ tracked_asins' = ExtSave(tracked_asins, db_data)
    /\ price_history' =
           IF HasPrice(db_data)
           THEN SavePriceHistory(price_history, ExtHistoryData(db_data))
           ELSE price_history
    /\ produced' = out

ExtAccepted(data, asin, out) ==
    ExtStore(ExtDbData(data, asin, out.seller, out.is_amazon,
                       out.buybox_status), out)

\* extension_scrape
ExtensionScrape(data, my_name) ==
    /\ IF Upper(Strip(data.asin)) = <<>>
          \/ Len(Upper(Strip(data.asin))) # AsinLength
       THEN /\ produced' = Unclassified("extension_scrape", BadRequest)
            /\ UNCHANGED <<tracked_asins, price_history>>
       ELSE ExtAccepted(data, Upper(Strip(data.asin)),
                        ExtClassify(data, ExtSeller(data), my_name))
    /\ UNCHANGED <<completed, retryVars, extractVars, bulkVars, alertVars, restVars>>

\* --- lookup_buybox ---

\* What lookup_buybox classified: the flags and the state of a result with
\* outcome success.
LookupProduced(data) ==
    IF data.status = "success"
    THEN Produced("lookup_buybox", Ok, data.buybox_seller,
                  data.is_amazon_seller, data.is_my_buybox, data.buybox_status)
    ELSE Unclassified("lookup_buybox", Ok)

\* Lines 680-683, given the result of get_amazon_buybox.
LookupStore(data) ==
    /\ HistoryHasRoom(data)
    /\ tracked_asins' = SaveAsin(tracked_asins, data)
    /\ price_history' = SavePriceHistory(price_history, data)
    /\ produced' = LookupProduced(data)
    /\ completed' = Completion("lookup_buybox", data.asin, FALSE)

\* --- bulk_add_asins ---

PendingTitle(asin) ==
    <<"P", "e", "n", "d", "i", "n", "g", " ", "s", "c", "r", "a", "p", "e",
      ".", ".", ".", " ", "(">> \o asin \o <<")">>

\* The placeholder dictionary of lines 1013-1019.
Placeholder(asin, marketplace) ==
    [asin |-> asin, marketplace |-> marketplace, status |-> "pending",
     title |-> PendingTitle(asin), buybox_status |-> "unknown"]

\* One iteration of the loop of lines 1007-1020.
BulkAddOne(table, asin, marketplace) ==
    IF asin = <<>> \/ ~AsinPattern(asin) THEN table
    ELSE SaveAsin(table, Placeholder(asin, marketplace))

RECURSIVE BulkAdd(_, _, _)
BulkAdd(table, asins, marketplace) ==
    IF asins = <<>> THEN table
    ELSE BulkAdd(BulkAddOne(table, Upper(Strip(Head(asins))), marketplace),
                 Tail(asins), marketplace)

\* bulk_add_asins
BulkAddAsins(asins, marketplace) ==
    /\ tracked_asins' = BulkAdd(tracked_asins, asins, marketplace)
    /\ produced' = Unclassified("bulk_add_asins", Ok)
    /\ UNCHANGED <<price_history, completed, retryVars, extractVars, bulkVars,
                   alertVars, restVars>>

\* The requests the handlers receive.
Kettle == <<"K", "e", "t", "t", "l", "e">>
LowerPadded == <<" ">> \o Lower(TheAsin) \o <<" ">>
BadAsin == <<"b", "a", "d">>
WwwCoZa == <<"w", "w", "w", ".">> \o CoZa
OwnAndAmazon ==
    <<"A", "m", "a", "z", "o", "n", " ", "B", "o", "n", "o", "l", "o", " ", "O", "n", "l", "i", "n", "e">>

Payloads ==
    [asin : {LowerPadded},
     title : {Kettle},
     seller : {None, Some(AcmeTraders), Some(DefaultSellerName), Some(Unknown)},
     is_amazon : BOOLEAN,
     buybox_status : {None, Some("winning"), Some("bogus")},
     price : {None},
     marketplace : {Some(WwwCoZa)}]
    \cup
    [asin : {TheAsin, BadAsin},
     title : {Kettle},
     seller : {Some(AcmeTraders)},
     is_amazon : {FALSE},
     buybox_status : {Some("")},
     price : {Some(1499 * Scale)},
     marketplace : {None}]

LookupAsins == {LowerPadded, <<" ">>}

Offscreen1299 ==
    Span("a-offscreen", <<"R", "1", " ", "2", "9", "9", ",", "0", "0">>)

StoreDocuments ==
    {<<>>, <<Offscreen1299, SellerLinkEl(AcmeTraders)>>}
    \cup {<<SellerLinkEl(s)>> : s \in {AcmeTraders, OwnAndAmazon, AmazonCoZa}}

StorePages ==
    {Response("200", d) : d \in StoreDocuments} \cup {Response("503", <<>>)}

StoreOffers ==
    {Response("200", <<>>),
     Response("200", <<OfferDiv(<<OfferPriceSpan(<<"1", ",", "4", "9", "9">>, <<"0", "0">>),
                                  SellerHeading(<<El("a", "", {}, <<Txt(AcmeTraders)>>)>>)>>)>>)}

AsinLists == {<<>>, <<TheAsin>>, <<BadAsin, LowerPadded>>}

\* get_amazon_buybox on the requests of lookup_buybox; the clock reads 1.
Scraped ==
    [r \in StorePages, o \in StoreOffers |->
        GetAmazonBuybox(TheAsin, CoZa, r, o, DefaultSellerName, 1)]

\* lookup_buybox
LookupBuybox(asin, resp, offer_resp) ==
    /\ IF Upper(Strip(asin)) = <<>>
       THEN /\ produced' = Unclassified("lookup_buybox", BadRequest)
            /\ UNCHANGED <<tracked_asins, price_history, completed>>
       ELSE LookupStore([Scraped[resp, offer_resp]
                            EXCEPT !.asin = Upper(Strip(asin))])
    /\ UNCHANGED <<retryVars, extractVars, bulkVars, alertVars, restVars>>

StoreIdle ==
    /\ tracked_asins = <<>>
    /\ price_history = <<>>
    /\ produced = Unclassified("none", Ok)
    /\ completed = NoCompletion

----------------------------------------------------------------------------
(* check_and_alert (alerts.py).  Statuses and credentials are strings; a   *)
(* send is the call of send_whatsapp_alert or send_telegram_alert.         *)

\* new_data.get("buybox_status", "unknown")
NewStatus(new_data) ==
    IF "buybox_status" \in DOMAIN new_data THEN new_data.buybox_status
    ELSE "unknown"

\* if old_status == new_status: return
StatusChangedAlways(old_status, new_status) == TRUE

StatusChanged(old_status, new_status) == old_status # new_status

TitleMax == 40

\* Lines 153-157: the fields the message is built from.
MessageFields(new_data) ==
    LET asin == IF "asin" \in DOMAIN new_data THEN new_data.asin ELSE <<>>
        title == IF "title" \in DOMAIN new_data THEN new_data.title ELSE asin
    IN  [asin |-> asin,
         title |-> SubSeq(title, 1, IF Len(title) < TitleMax THEN Len(title) ELSE TitleMax),
         price |-> IF "buybox_price" \in DOMAIN new_data
                   THEN new_data.buybox_price ELSE Some(0),
         seller |-> IF "buybox_seller" \in DOMAIN new_data
                    THEN new_data.buybox_seller ELSE Unknown,
         currency |-> IF "currency" \in DOMAIN new_data
                      THEN new_data.currency ELSE "R"]

\* Lines 159-181: the message, or None.
ComposeMessage(old_status, new_status, new_data, settings) ==
    IF new_status = "losing" /\ settings.alert_losing
    THEN Some([kind |-> "LOSING BUYBOX", fields |-> MessageFields(new_data)])
    ELSE IF new_status = "winning" /\ settings.alert_winning
            /\ old_status # "winning"
    THEN Some([kind |-> "YOU WON BUYBOX",
               fields |-> [MessageFields(new_data) EXCEPT !.seller = <<>>]])
    ELSE IF new_status = "amazon" /\ settings.alert_amazon
    THEN Some([kind |-> "AMAZON TOOK BUYBOX",
               fields |-> [MessageFields(new_data) EXCEPT !.seller = <<>>]])
    ELSE None

\* if phone and apikey / if bot_token and chat_id
WhatsAppConfigured(settings) ==
    settings.whatsapp_phone # "" /\ settings.callmebot_apikey # ""

TelegramConfigured(settings) ==
    settings.telegram_bot_token # "" /\ settings.telegram_chat_id # ""

\* Lines 186-196: the sends, WhatsApp first.
Dispatch(message, settings) ==
    (IF WhatsAppConfigured(settings)
     THEN <<[channel |-> "whatsapp", to |-> settings.whatsapp_phone,
             message |-> message]>>
     ELSE <<>>)
    \o (IF TelegramConfigured(settings)
        THEN <<[channel |-> "telegram", to |-> settings.telegram_chat_id,
                message |-> message]>>
        ELSE <<>>)

DispatchMessage(message, settings) ==
    IF message = None THEN <<>> ELSE Dispatch(Val(message), settings)

\* check_and_alert: the sends it makes.
CheckAndAlert(old_status, new_data, settings) ==
    IF ~StatusChanged(old_status, NewStatus(new_data)) THEN <<>>
    ELSE DispatchMessage(ComposeMessage(old_status, NewStatus(new_data),
                                        new_data, settings), settings)

\* The arguments of check_and_alert: a result of every state, one with a
\* title longer than the message keeps, and the dictionary of a failure.
LongTitle == [i \in 1..(TitleMax + 1) |-> "x"]

AlertResult(title, status) ==
    [asin |-> TheAsin, status |-> "success", title |-> title,
     buybox_price |-> Some(1299 * Scale), buybox_seller |-> AcmeTraders,
     currency |-> "R", buybox_status |-> status]

AlertData ==
    {AlertResult(Kettle, s) : s \in {"winning", "losing", "amazon", "unknown"}}
    \cup {AlertResult(LongTitle, "losing"),
          [asin |-> TheAsin, status |-> "blocked",
           error |-> "Amazon blocked the request (503)"]}

OldStatuses == {NULL, "winning", "losing", "amazon", "unknown"}

Credentials ==
    [whatsapp_phone : {"", "+27821234567"}, callmebot_apikey : {"", "k"},
     telegram_bot_token : {"", "123456:ABC"}, telegram_chat_id : {"", "42"}]

Toggles ==
    [alert_losing : BOOLEAN, alert_winning : BOOLEAN, alert_amazon : BOOLEAN]

\* c @@ t without the TLC operator: the record holding the keys of both.
Settings(c, t) ==
    [whatsapp_phone |-> c.whatsapp_phone,
     callmebot_apikey |-> c.callmebot_apikey,
     telegram_bot_token |-> c.telegram_bot_token,
     telegram_chat_id |-> c.telegram_chat_id,
     alert_losing |-> t.alert_losing, alert_winning |-> t.alert_winning,
     alert_amazon |-> t.alert_amazon]

AlertSettings == {Settings(c, t) : c \in Credentials, t \in Toggles}

\* Lines 49-60 with no environment variable set and no settings file.
DefaultSettings ==
    Settings([whatsapp_phone |-> "", callmebot_apikey |-> "",
              telegram_bot_token |-> "", telegram_chat_id |-> ""],
             [alert_losing |-> TRUE, alert_winning |-> TRUE,
              alert_amazon |-> TRUE])

AlertIdle ==
    /\ aOld = NULL
    /\ aNew = [asin |-> <<>>]
    /\ aSettings = DefaultSettings
    /\ aSent = <<>>
    /\ aPc = "idle"

AlertInputs ==
    /\ aOld \in OldStatuses
    /\ aNew \in AlertData
    /\ aSettings \in AlertSettings
    /\ aSent = <<>>
    /\ aPc = "ready"

AlertCall ==
    /\ aPc = "ready"
    /\ aSent' = CheckAndAlert(aOld, aNew, aSettings)
    /\ aPc' = "done"
    /\ UNCHANGED <<aOld, aNew, aSettings>>

----------------------------------------------------------------------------
(* The bulk runs: bulk_start and the thread of _run_bulk_job, bulk_lookup, *)
(* and refresh_all_asins (scheduler.py).  What scrape_with_retry returns   *)
(* for an identifier is drawn from results of get_amazon_buybox; a call of *)
(* save_asin or save_price_history either commits or raises.               *)

\* The bound on the calls of bulk_lookup, refresh_all_asins and bulk_status
\* served.
MaxCalls == 1

Raises == {"none", "save_asin", "save_price_history"}

NoOffers == Response("200", <<>>)

Priced ==
    Scraped[Response("200", <<Offscreen1299, SellerLinkEl(AcmeTraders)>>), NoOffers]

\* A priced result, a result with a seller and no price, and a blocked one.
ScrapeResults ==
    {Priced,
     Scraped[Response("200", <<SellerLinkEl(AmazonCoZa)>>), NoOffers],
     Scraped[Response("503", <<>>), NoOffers]}

\* Which results are drawn, and with which failure of the database.
Outcomes ==
    [data : ScrapeResults, raises : {"none"}]
    \cup [data : {Priced}, raises : Raises]

DatabaseError == "(psycopg2.OperationalError) server closed the connection"

\* What one identifier leaves behind: the tables, and the entry for results
\* or for failed, or the exception raised.
Saved(raised, kind, entry, data, table, history) ==
    [raised |-> raised, kind |-> kind, entry |-> entry, data |-> data,
     table |-> table, history |-> history]

FailedEntry(asin, error) == [asin |-> asin, error |-> error]

\* Lines 98-102 and 712-716: save_asin, then for a result with outcome
\* success save_price_history and the entry for results.
SaveSuccess(table, history, data, raises) ==
    IF raises = "save_price_history" /\ HasPrice(data)
    THEN Saved(TRUE, "raised", DatabaseError, data, table, history)
    ELSE Saved(FALSE, "results", data, data, table,
               SavePriceHistory(history, data))

\* Lines 104-105 and 717-718.
SaveFailure(table, history, data) ==
    Saved(FALSE, "failed",
          FailedEntry(data.asin, IF "error" \in DOMAIN data THEN data.error
                                 ELSE "Unknown error"),
          data, table, history)

ScrapeAndSave(table, history, data, raises) ==
    IF raises = "save_asin"
    THEN Saved(TRUE, "raised", DatabaseError, data, table, history)
    ELSE IF data.status = "success"
    THEN SaveSuccess(SaveAsin(table, data), history, data, raises)
    ELSE SaveFailure(SaveAsin(table, data), history, data)

\* The result scrape_with_retry returns for asin.
ResultFor(asin, outcome) == [outcome.data EXCEPT !.asin = asin]

\* [a.strip().upper() for a in req.asins if a.strip()]
Cleaned(raw) ==
    SelectSeq([i \in DOMAIN raw |-> Upper(Strip(raw[i]))],
              LAMBDA a : a # <<>>)

\* asins = [a for a in asins if asin_pattern.match(a)]
ValidAsins(raw) == SelectSeq(Cleaned(raw), AsinPattern)

\* --- bulk_start and _run_bulk_job ---

\* uuid.uuid4()
JobIds == {"job-1"}

\* Lines 745-756.
NewJob(total) ==
    [status |-> "queued", total |-> total, done |-> 0, results |-> <<>>,
     failed |-> <<>>, finished_at |-> NULL, error |-> NULL]

\* The thread's locals: results and failed, the loop index i (the number of
\* identifiers finished), the identifiers attempted so far and the session.
NewWorker(asins) ==
    [pc |-> "start", asins |-> asins, i |-> 0, results |-> <<>>,
     failed |-> <<>>, attempted |-> <<>>, session |-> "none"]

\* bulk_start, lines 734-761, for a request with a valid identifier; a
\* request with none is answered 400 and changes nothing.
BulkStart(raw, j) ==
    /\ j \notin DOMAIN jobs
    /\ ValidAsins(raw) # <<>>
    /\ jobs' = Put(jobs, j, NewJob(Len(ValidAsins(raw))))
    /\ worker' = Put(worker, j, NewWorker(ValidAsins(raw)))
    /\ UNCHANGED <<bulk_response, alert_sent, calls, polled, storeVars, retryVars,
                   extractVars, alertVars, restVars>>

\* Lines 86-93.  SessionLocal() is called before the try statement: when it
\* raises, the exception ends the thread.
SessionMade(w, made) ==
    IF made THEN [w EXCEPT !.pc = "scrape", !.session = "open"]
    ELSE [w EXCEPT !.pc = "raised"]

JobStart(j, made) ==
    /\ j \in DOMAIN worker
    /\ worker[j].pc = "start"
    /\ jobs' = [jobs EXCEPT ![j].status = "running"]
    /\ worker' = [worker EXCEPT ![j] = SessionMade(@, made)]
    /\ UNCHANGED <<bulk_response, alert_sent, calls, polled, storeVars, retryVars,
                   extractVars, alertVars, restVars>>

\* for i, asin in enumerate(asins)
NextAsinFromEnd(asins, i) == asins[Len(asins) - i]

NextAsin(asins, i) == asins[i + 1]

\* Lines 100-109: the entry appended to results or to failed.
AfterScrape(w, asin, saved) ==
    [w EXCEPT !.pc = "publish",
              !.attempted = Append(@, asin),
              !.results = IF saved.kind = "results"
                          THEN Append(@, saved.entry) ELSE @,
              !.failed = IF saved.kind = "failed"
                         THEN Append(@, saved.entry)
                         ELSE IF saved.kind = "raised"
                         THEN Append(@, FailedEntry(asin, saved.entry))
                         ELSE @]

JobSaved(j, asin, saved) ==
    /\ Len(saved.history) <= MaxHistory
    /\ tracked_asins' = saved.table
    /\ price_history' = saved.history
    /\ completed' = Completion("_run_bulk_job", asin, FALSE)
    /\ worker' = [worker EXCEPT ![j] = AfterScrape(@, asin, saved)]

\* Lines 96-109: one identifier.
JobScrape(j, outcome) ==
    /\ j \in DOMAIN worker
    /\ worker[j].pc = "scrape"
    /\ JobSaved(j, NextAsin(worker[j].asins, worker[j].i),
                ScrapeAndSave(tracked_asins, price_history,
                              ResultFor(NextAsin(worker[j].asins, worker[j].i),
                                        outcome),
                              outcome.raises))
    /\ UNCHANGED <<jobs, produced, bulk_response, alert_sent, calls, polled, retryVars,
                   extractVars, alertVars, restVars>>

\* Lines 111-114: the three fields, written while _jobs_lock is held.
PublishDoneOnly(entry, i, results, failed) == [entry EXCEPT !.done = i + 1]

PublishSkipping(entry, i, results, failed) ==
    [entry EXCEPT !.done = i + 2, !.results = results, !.failed = failed]

Publish(entry, i, results, failed) ==
    [entry EXCEPT !.done = i + 1, !.results = results, !.failed = failed]

JobPublish(j) ==
    /\ j \in DOMAIN worker
    /\ worker[j].pc = "publish"
    /\ jobs' = [jobs EXCEPT ![j] = Publish(@, worker[j].i, worker[j].results,
                                            worker[j].failed)]
    /\ worker' = [worker EXCEPT ![j].pc = "between", ![j].i = @ + 1]
    /\ UNCHANGED <<bulk_response, alert_sent, calls, polled, storeVars, retryVars,
                   extractVars, alertVars, restVars>>

\* Lines 116-122: the wait before the next identifier.
JobSleep(j) ==
    /\ j \in DOMAIN worker
    /\ worker[j].pc = "between"
    /\ worker[j].i < Len(worker[j].asins)
    /\ worker' = [worker EXCEPT ![j].pc = "scrape"]
    /\ UNCHANGED <<jobs, bulk_response, alert_sent, calls, polled, storeVars, retryVars,
                   extractVars, alertVars, restVars>>

\* Lines 127-135: the session closed, then status and finished_at.
JobFinish(j) ==
    /\ j \in DOMAIN worker
    /\ worker[j].pc = "between"
    /\ worker[j].i = Len(worker[j].asins)
    /\ jobs' = [jobs EXCEPT ![j].status = "done", ![j].finished_at = "set"]
    /\ worker' = [worker EXCEPT ![j].pc = "exit", ![j].session = "closed"]
    /\ UNCHANGED <<bulk_response, alert_sent, calls, polled, storeVars, retryVars,
                   extractVars, alertVars, restVars>>

\* --- bulk_status ---

\* The keys of a job's dictionary in the order bulk_start inserts them,
\* which is the order in which the response is built from it.
JobKeys ==
    <<"status", "total", "done", "results", "failed", "finished_at", "error">>

\* Lines 773-777: the handler looks the job up while it holds _jobs_lock and
\* returns the dictionary itself; nothing has been read from it yet.
Looked(j) == [job |-> j, next |-> 1, body |-> <<>>]

BulkStatus(j) ==
    /\ calls < MaxCalls
    /\ polled = None
    /\ j \in DOMAIN jobs
    /\ calls' = calls + 1
    /\ polled' = Some(Looked(j))
    /\ UNCHANGED <<jobs, worker, bulk_response, alert_sent, storeVars,
                   retryVars, extractVars, alertVars, restVars>>

\* The response is built from the returned dictionary after the handler has
\* released the lock: one key is read per step, the thread of the job
\* running in between.
ReadKey(p, entry) ==
    [p EXCEPT !.next = @ + 1,
              !.body = Put(@, JobKeys[p.next], entry[JobKeys[p.next]])]

ResponseBuilt(p) == p.next > Len(JobKeys)

BulkStatusRead ==
    /\ polled # None
    /\ ~ResponseBuilt(Val(polled))
    /\ polled' = Some(ReadKey(Val(polled), jobs[Val(polled).job]))
    /\ UNCHANGED <<jobs, worker, bulk_response, alert_sent, calls, storeVars,
                   retryVars, extractVars, alertVars, restVars>>

\* --- bulk_lookup ---

\* results, failed and the tables while the loop of lines 711-725 runs;
\* raised once an exception has left the loop.
RunState(raised, results, failed, attempted, table, history) ==
    [raised |-> raised, results |-> results, failed |-> failed,
     attempted |-> attempted, table |-> table, history |-> history]

\* Lines 712-718: there is no try around the body of the loop.
BulkStep(acc, asin, saved) ==
    RunState(saved.raised,
             IF saved.kind = "results" THEN Append(acc.results, saved.entry)
             ELSE acc.results,
             IF saved.kind = "failed" THEN Append(acc.failed, saved.entry)
             ELSE acc.failed,
             Append(acc.attempted, asin), saved.table, saved.history)

RECURSIVE BulkRun(_, _, _)
BulkRun(asins, outs, acc) ==
    IF asins = <<>> \/ acc.raised THEN acc
    ELSE BulkRun(Tail(asins), Tail(outs),
                 BulkStep(acc, Head(asins),
                          ScrapeAndSave(acc.table, acc.history,
                                        ResultFor(Head(asins), Head(outs)),
                                        Head(outs).raises)))

\* Line 727, or the exception that reaches the caller.
BulkResponse(asins, run) ==
    [path |-> "bulk_lookup", asins |-> asins, raised |-> run.raised,
     results |-> run.results, failed |-> run.failed,
     attempted |-> run.attempted]

NoResponse ==
    [path |-> NULL, asins |-> <<>>, raised |-> FALSE, results |-> <<>>,
     failed |-> <<>>, attempted |-> <<>>]

BulkLookupDone(asins, run) ==
    /\ calls < MaxCalls
    /\ calls' = calls + 1
    /\ Len(run.history) <= MaxHistory
    /\ tracked_asins' = run.table
    /\ price_history' = run.history
    /\ bulk_response' = BulkResponse(asins, run)
    /\ completed' = IF run.attempted = <<>> THEN completed
                    ELSE Completion("bulk_lookup",
                                    run.attempted[Len(run.attempted)], FALSE)

\* bulk_lookup
BulkLookup(raw, outs) ==
    /\ BulkLookupDone(Cleaned(raw),
                      BulkRun(Cleaned(raw), outs,
                              RunState(FALSE, <<>>, <<>>, <<>>, tracked_asins,
                                       price_history)))
    /\ UNCHANGED <<jobs, worker, produced, alert_sent, polled, retryVars,
                   extractVars,
                   alertVars, restVars>>

\* --- refresh_all_asins (scheduler.py) ---

\* a.buybox_status
StatusOf(column) == IF column = None THEN NULL ELSE Val(column)

RefreshState(table, history, sent, last) ==
    [table |-> table, history |-> history, sent |-> sent, last |-> last]

\* Lines 46-53: an exception of one identifier is logged and the loop goes
\* on, without the call of check_and_alert.
RefreshStep(acc, asin, old_status, saved, settings) ==
    RefreshState(saved.table, saved.history,
                 IF saved.raised THEN acc.sent
                 ELSE acc.sent \o CheckAndAlert(old_status, saved.data, settings),
                 Completion("refresh_all_asins", asin, ~saved.raised))

RECURSIVE RefreshRun(_, _, _, _, _)
RefreshRun(rows, order, outs, settings, acc) ==
    IF order = <<>> THEN acc
    ELSE RefreshRun(rows, Tail(order), Tail(outs), settings,
                    RefreshStep(acc, Head(order),
                                StatusOf(rows[Head(order)].buybox_status),
                                ScrapeAndSave(acc.table, acc.history,
                                              ResultFor(Head(order), Head(outs)),
                                              Head(outs).raises),
                                settings))

RefreshDone(run) ==
    /\ calls < MaxCalls
    /\ calls' = calls + 1
    /\ Len(run.history) <= MaxHistory
    /\ tracked_asins' = run.table
    /\ price_history' = run.history
    /\ alert_sent' = run.sent
    /\ completed' = run.last

\* get_all_asins: the rows in the order of updated_at, which any order of
\* the rows can be.
Orders(table) ==
    {order \in [1..Cardinality(DOMAIN table) -> DOMAIN table] :
        \A i, k \in DOMAIN order : i # k => order[i] # order[k]}

\* refresh_all_asins
RefreshAllAsins(order, outs) ==
    /\ order # <<>>
    /\ RefreshDone(RefreshRun(tracked_asins, order, outs, aSettings,
                              RefreshState(tracked_asins, price_history, <<>>,
                                           completed)))
    /\ UNCHANGED <<jobs, worker, bulk_response, produced, polled, retryVars,
                   extractVars, aOld, aNew, aSent, aPc, aSettings,
                   restVars>>

\* The requests of the bulk handlers.
OtherAsin == <<"B", "0", "0", "0", "6", "5", "4", "3", "2", "1">>

JobLists == {<<OtherAsin, <<" ">>, BadAsin, LowerPadded>>}

BulkLists == {<<>>, <<TheAsin>>, <<OtherAsin, <<" ">>, LowerPadded>>}

TelegramOnly ==
    [DefaultSettings EXCEPT !.telegram_bot_token = "123456:ABC",
                            !.telegram_chat_id = "42"]

BulkIdle ==
    /\ jobs = <<>>
    /\ worker = <<>>
    /\ bulk_response = NoResponse
    /\ alert_sent = <<>>
    /\ calls = 0
    /\ polled = None

----------------------------------------------------------------------------
(* parse_price as a call: the text is a currency glyph followed by an      *)
(* amount.                                                                 *)

\* The glyphs the text may start with: none, the six a price page shows, and
\* the pound sign as line 194 spells it.
Glyphs ==
    {<<>>, <<"R">>, <<POUND>>, <<"$">>, <<EURO>>, <<"A", "$">>, <<"C", "$">>,
     <<NOTSIGN, POUND>>}

Amounts ==
    {<<>>, <<"0">>, <<"-", "5">>, <<"a", "b", "c">>, <<"5">>, <<"5", "3", ".", "4", "8">>, <<"1", "2", ".", "9", "9">>,
     <<"1", " ", "6", "6", "0", ",", "0", "0">>, <<"1", ",", "6", "6", "0", ".", "0", "0">>, <<"1", ",", "5">>, <<"1", " ", "0", "0", "0">>, <<"1", ",", "2", "3", "4", ",", "5", "6", "7">>,
     <<"0", ",", "0", "0">>, <<"1", ".", "2", ".", "3">>, <<" ", "7", ".", "5", "0", " ">>, <<"1", NBSP, "6", "6", "0", ",", "0", "0">>}

ParseIdle ==
    /\ pGlyph = <<>>
    /\ pAmount = <<>>
    /\ pOut = None
    /\ pPc = "idle"

ParseInputs ==
    /\ pGlyph \in Glyphs
    /\ pAmount \in Amounts
    /\ pOut = None
    /\ pPc = "ready"

ParseCall ==
    /\ pPc = "ready"
    /\ pOut' = ParsePrice(pGlyph \o pAmount)
    /\ pPc' = "done"
    /\ UNCHANGED <<pGlyph, pAmount>>

----------------------------------------------------------------------------
(* scheduler.py: start_scheduler and update_scheduler_interval.  Each call *)
(* runs to its end before the next one starts.                             *)

MaxUpdates == 3

DefaultIntervalHours == 6

RefreshAll == "refresh_all"

\* What scheduler_settings.json holds: no file, text that is not JSON, or an
\* object with either key present or not.
SettingsFile(kind, hours, on) ==
    [kind |-> kind, interval_hours |-> hours, enabled |-> on]

SavedSettings(hours, on) == SettingsFile("json", Some(hours), Some(on))

load_scheduler_settings(file) ==
    IF file.kind = "json" THEN file
    ELSE SavedSettings(DefaultIntervalHours, TRUE)

\* settings.get(key, default)
GetOr(field, default) == IF field = None THEN default ELSE Val(field)

RefreshJob(hours) == [id |-> RefreshAll, hours |-> hours]

\* scheduler.add_job(..., id=..., replace_existing=True)
AddJob(registered, job) ==
    IF \E i \in DOMAIN registered : registered[i].id = job.id
    THEN [i \in DOMAIN registered |->
             IF registered[i].id = job.id THEN job ELSE registered[i]]
    ELSE Append(registered, job)

RemoveNoJobs(registered) == registered

\* scheduler.remove_all_jobs()
RemoveAllJobs(registered) == <<>>

SchedState(running, registered, hours, on, file) ==
    [running |-> running, jobs |-> registered, interval_hours |-> hours,
     enabled |-> on, file |-> file]

StartWith(s, hours, on) ==
    IF on
    THEN SchedState(TRUE, AddJob(s.jobs, RefreshJob(hours)), hours, on, s.file)
    ELSE SchedState(s.running, s.jobs, hours, on, s.file)

StartScheduler(s) ==
    StartWith(s,
              GetOr(load_scheduler_settings(s.file).interval_hours,
                    DefaultIntervalHours),
              GetOr(load_scheduler_settings(s.file).enabled, TRUE))

UpdateSaved(s, hours, on) ==
    IF s.running
    THEN IF on
         THEN SchedState(TRUE, AddJob(RemoveAllJobs(s.jobs), RefreshJob(hours)),
                         hours, on, s.file)
         ELSE SchedState(TRUE, RemoveAllJobs(s.jobs), hours, on, s.file)
    ELSE IF on THEN StartScheduler(s)
    ELSE s

UpdateSchedulerInterval(s, hours, on) ==
    UpdateSaved(SchedState(s.running, s.jobs, hours, on,
                           SavedSettings(hours, on)),
                hours, on)

SchedNow ==
    SchedState(scheduler_running, scheduler_jobs, interval_hours, enabled,
               settings_file)

SchedBecomes(s) ==
    /\ scheduler_running' = s.running
    /\ scheduler_jobs' = s.jobs
    /\ interval_hours' = s.interval_hours
    /\ enabled' = s.enabled
    /\ settings_file' = s.file

SchedCall(op, hours, on) == [op |-> op, interval_hours |-> hours, enabled |-> on]

\* startup_event: the first call is start_scheduler.
StartSchedulerCall ==
    /\ sched_log = <<>>
    /\ SchedBecomes(StartScheduler(SchedNow))
    /\ sched_log' = <<SchedCall("start_scheduler", None, None)>>

UpdateSchedulerCall(hours, on) ==
    /\ sched_log # <<>>
    /\ Len(sched_log) <= MaxUpdates
    /\ SchedBecomes(UpdateSchedulerInterval(SchedNow, hours, on))
    /\ sched_log' =
           Append(sched_log,
                  SchedCall("update_scheduler_interval", Some(hours), Some(on)))

Hours == {1, DefaultIntervalHours, 24}

SettingsFiles ==
    {SettingsFile("absent", None, None), SettingsFile("corrupt", None, None),
     SettingsFile("json", None, None), SavedSettings(1, FALSE),
     SavedSettings(24, TRUE), SettingsFile("json", Some(1), None)}

SchedFresh ==
    /\ scheduler_running = FALSE
    /\ scheduler_jobs = <<>>
    /\ interval_hours = DefaultIntervalHours
    /\ enabled = TRUE
    /\ sched_log = <<>>

SchedIdle == SchedFresh /\ settings_file = SettingsFile("absent", None, None)

SchedInputs == SchedFresh /\ settings_file \in SettingsFiles

----------------------------------------------------------------------------
(* The waits between the identifiers of a bulk run: the tail of the loop   *)
(* body of _run_bulk_job, bulk_lookup and bulk_url_lookup, in seconds.     *)

MaxTotal == 11

CooldownEvery == 10
CooldownLo == 10
CooldownHi == 20
JobDelayLo == 2
JobDelayHi == 4
BulkDelayLo == 3
BulkDelayHi == 6

Uniform(lo, hi) == [lo |-> lo, hi |-> hi]

\* Lines 117-122, after the k-th identifier of total.
JobSleeps(k, total) ==
    IF k % CooldownEvery = 0 /\ k < total
    THEN <<Uniform(CooldownLo, CooldownHi)>>
    ELSE IF k < total THEN <<Uniform(JobDelayLo, JobDelayHi)>>
    ELSE <<>>

\* Lines 720-725 and 1053-1058, after the k-th identifier.
BulkSleeps(k) ==
    IF k % CooldownEvery = 0 THEN <<Uniform(CooldownLo, CooldownHi)>>
    ELSE <<Uniform(BulkDelayLo, BulkDelayHi)>>

Sleeps(path, k, total) ==
    IF path = "_run_bulk_job" THEN JobSleeps(k, total) ELSE BulkSleeps(k)

\* random.uniform(lo, hi), drawn at either end of the range.
Drawn(ranges) ==
    {d \in [DOMAIN ranges -> JobDelayLo..CooldownHi] :
        \A n \in DOMAIN ranges : d[n] \in {ranges[n].lo, ranges[n].hi}}

PacePaths == {"_run_bulk_job", "bulk_lookup", "bulk_url_lookup"}

PaceIdle ==
    /\ pace_path = "none"
    /\ pace_total = 0
    /\ pace_i = 0
    /\ pace_sleeps = <<>>

PaceInputs ==
    /\ pace_path \in PacePaths
    /\ pace_total \in 1..MaxTotal
    /\ pace_i = 0
    /\ pace_sleeps = <<>>

\* One more identifier is finished and the loop body has made its sleeps.
PaceIdentifier ==
    /\ pace_i < pace_total
    /\ pace_i' = pace_i + 1
    /\ pace_sleeps' \in Drawn(Sleeps(pace_path, pace_i + 1, pace_total))
    /\ UNCHANGED <<pace_path, pace_total>>

RestIdle == ParseIdle /\ SchedIdle /\ PaceIdle

----------------------------------------------------------------------------
(* scrape_with_retry                                                       *)

\* Bound on max_retries (the default is DefaultMaxRetries).
MaxRetries == 3

DefaultMaxRetries == 3

BlockedLo == 8
BlockedHi == 15
ErrorLo == 3
ErrorHi == 6

\* The statuses a result can carry.  get_amazon_buybox itself emits the first
\* three; "pending" is the status of the placeholder records of bulk_add_asins
\* and stands for any status outside the three that the loop's final else
\* branch handles.
Statuses == {"success", "blocked", "error", "pending"}

NoData == [status |-> NULL, attempt |-> 0]

\* for attempt in range(1, max_retries + 1): is there another iteration?
LoopContinuesOffByOne(attempt, max) == attempt <= max

LoopContinues(attempt, max) == attempt < max

\* The if / elif / elif / else on data.get("status").
RetryBranchRetriesSuccess(st) ==
    IF st = "blocked" THEN "backoff_blocked"
    ELSE IF st \in {"error", "success"} THEN "backoff_error"
    ELSE "break"

RetryBranchRetriesOther(st) ==
    IF st = "success" THEN "return"
    ELSE IF st = "blocked" THEN "backoff_blocked"
    ELSE "backoff_error"

RetryBranch(st) ==
    IF st = "success" THEN "return"
    ELSE IF st = "blocked" THEN "backoff_blocked"
    ELSE IF st = "error" THEN "backoff_error"
    ELSE "break"

\* random.uniform(a, b), on the integer grid.
UniformRange(branch) ==
    IF branch = "backoff_blocked" THEN BlockedLo..BlockedHi ELSE ErrorLo..ErrorHi

\* wait = random.uniform(8, 15) * attempt   |   wait = random.uniform(3, 6)
BackoffWaitUnscaled(branch, u, attempt) == u

BackoffWait(branch, u, attempt) ==
    IF branch = "backoff_blocked" THEN u * attempt ELSE u

RetryIdle ==
    /\ rMax = DefaultMaxRetries
    /\ rAttempt = 0
    /\ rData = NoData
    /\ rPc = "idle"
    /\ rWait = 0
    /\ rWaits = 0
    /\ rHist = <<>>
    /\ rReturned = NoData

ExtractIdle ==
    /\ xResp = Response("200", <<>>)
    /\ xOffer = Response("200", <<>>)
    /\ xMyName = DefaultSellerName
    /\ xNow = 1
    /\ xPc = "idle"
    /\ xResult = NoResult
    /\ xTrace = NoTrace

RetryInit ==
    /\ ExtractIdle
    /\ StoreIdle
    /\ BulkIdle
    /\ AlertIdle
    /\ RestIdle
    /\ rMax \in 1..MaxRetries
    /\ rAttempt = 0
    /\ rData = NoData
    /\ rPc = "loop"
    /\ rWait = 0
    /\ rWaits = 0
    /\ rHist = <<>>
    /\ rReturned = NoData

\* One iteration up to its sleep: the call, and the branch on its status.
RetryAttempt(st) ==
    /\ rPc = "loop"
    /\ LoopContinues(rAttempt, rMax)
    /\ rAttempt' = rAttempt + 1
    /\ rData' = [status |-> st, attempt |-> rAttempt + 1]
    /\ rHist' = Append(rHist, st)
    /\ LET branch == RetryBranch(st) IN
         IF branch \in {"return", "break"}
         THEN /\ rPc' = "returned"
              /\ rReturned' = rData'
              /\ UNCHANGED rWait
         ELSE /\ \E u \in UniformRange(branch) :
                    rWait' = BackoffWait(branch, u, rAttempt + 1)
              /\ rPc' = "sleep"
              /\ UNCHANGED rReturned
    /\ UNCHANGED <<rMax, rWaits, extractVars, storeVars, bulkVars, alertVars, restVars>>

\* time.sleep(wait) returns; the loop goes to its next iteration.
RetrySleep ==
    /\ rPc = "sleep"
    /\ rWaits' = rWaits + 1
    /\ rPc' = "loop"
    /\ UNCHANGED <<rMax, rAttempt, rData, rWait, rHist, rReturned, extractVars,
                   storeVars, bulkVars, alertVars, restVars>>

\* The range is exhausted: return data.
RetryExhausted ==
    /\ rPc = "loop"
    /\ ~LoopContinues(rAttempt, rMax)
    /\ rPc' = "returned"
    /\ rReturned' = rData
    /\ UNCHANGED <<rMax, rAttempt, rData, rWait, rWaits, rHist, extractVars,
                   storeVars, bulkVars, alertVars, restVars>>

RetryNext ==
    \/ \E st \in Statuses : RetryAttempt(st)
    \/ RetrySleep
    \/ RetryExhausted

SpecRetry == RetryInit /\ [][RetryNext]_vars

ExtractNext ==
    ExtractCall /\ UNCHANGED <<retryVars, storeVars, bulkVars, alertVars, restVars>>

ExtractInit ==
    ExtractInputs /\ RetryIdle /\ StoreIdle /\ BulkIdle /\ AlertIdle
    /\ RestIdle

SpecExtract == ExtractInit /\ [][ExtractNext]_vars

StoreInit == RetryIdle /\ ExtractIdle /\ StoreIdle /\ BulkIdle /\ AlertIdle
    /\ RestIdle

StoreNext ==
    \/ \E asin \in LookupAsins, resp \in StorePages, offer_resp \in StoreOffers :
           LookupBuybox(asin, resp, offer_resp)
    \/ \E data \in Payloads : ExtensionScrape(data, DefaultSellerName)
    \/ \E asins \in AsinLists : BulkAddAsins(asins, CoZa)

SpecStore == StoreInit /\ [][StoreNext]_vars

AlertInit == AlertInputs /\ RetryIdle /\ ExtractIdle /\ StoreIdle /\ BulkIdle
    /\ RestIdle

AlertNext ==
    AlertCall
    /\ UNCHANGED <<retryVars, extractVars, storeVars, bulkVars, restVars>>

SpecAlert == AlertInit /\ [][AlertNext]_vars

BulkInit ==
    /\ RetryIdle /\ ExtractIdle /\ StoreIdle /\ BulkIdle /\ RestIdle
    /\ aOld = NULL
    /\ aNew = [asin |-> <<>>]
    /\ aSettings = TelegramOnly
    /\ aSent = <<>>
    /\ aPc = "idle"

BulkNext ==
    \/ \E raw \in JobLists, j \in JobIds : BulkStart(raw, j)
    \/ \E j \in JobIds, made \in BOOLEAN : JobStart(j, made)
    \/ \E j \in JobIds, outcome \in Outcomes : JobScrape(j, outcome)
    \/ \E j \in JobIds : JobPublish(j)
    \/ \E j \in JobIds : JobSleep(j)
    \/ \E j \in JobIds : JobFinish(j)
    \/ \E j \in JobIds : BulkStatus(j)
    \/ BulkStatusRead
    \/ \E raw \in BulkLists :
           \E outs \in [1..Len(Cleaned(raw)) -> Outcomes] : BulkLookup(raw, outs)
    \/ \E order \in Orders(tracked_asins) :
           \E outs \in [1..Len(order) -> Outcomes] : RefreshAllAsins(order, outs)

SpecBulk == BulkInit /\ [][BulkNext]_vars

AllIdle == RetryIdle /\ ExtractIdle /\ StoreIdle /\ BulkIdle /\ AlertIdle

ParseInit == ParseInputs /\ AllIdle /\ SchedIdle /\ PaceIdle

ParseNext ==
    ParseCall
    /\ UNCHANGED <<retryVars, extractVars, storeVars, bulkVars, alertVars,
                   schedVars, paceVars>>

SpecParse == ParseInit /\ [][ParseNext]_vars

SchedInit == SchedInputs /\ AllIdle /\ ParseIdle /\ PaceIdle

SchedFrame ==
    UNCHANGED <<retryVars, extractVars, storeVars, bulkVars, alertVars,
                parseVars, paceVars>>

SchedNext ==
    \/ StartSchedulerCall /\ SchedFrame
    \/ \E hours \in Hours, on \in BOOLEAN :
           UpdateSchedulerCall(hours, on) /\ SchedFrame

SpecSched == SchedInit /\ [][SchedNext]_vars

PaceInit == PaceInputs /\ AllIdle /\ ParseIdle /\ SchedIdle

PaceNext ==
    PaceIdentifier
    /\ UNCHANGED <<retryVars, extractVars, storeVars, bulkVars, alertVars,
                   parseVars, schedVars>>

SpecPace == PaceInit /\ [][PaceNext]_vars

----------------------------------------------------------------------------
(* Claims about scrape_with_retry, checked under SpecRetry.                *)

Failing(st) == st \in {"blocked", "error"}

\* C1: scrape_with_retry never makes more than max_retries calls of
\* get_amazon_buybox, whatever the attempts' outcomes; and when it has
\* returned after attempts that all ended blocked or error, it made exactly
\* max_retries attempts and returned the result of the last of them.
C1_AtMostMaxAttempts ==
    /\ rAttempt <= rMax
    /\ Len(rHist) = rAttempt
    /\ (rPc = "returned" /\ \A i \in 1..Len(rHist) : Failing(rHist[i]))
          => /\ rAttempt = rMax
             /\ rReturned = [status |-> rHist[rMax], attempt |-> rMax]

\* [error, error, error] with max_retries = 3 has returned.
C1_Witness ==
    /\ rPc = "returned"
    /\ rMax = DefaultMaxRetries
    /\ rHist = <<"error", "error", "error">>
    /\ rReturned = [status |-> "error", attempt |-> 3]

\* C2: an attempt whose status is success is the last one: the function has
\* returned that attempt's result, and every wait that happened came before
\* it (one per earlier attempt), so none follows it.
C2_SuccessIsTerminal ==
    \A i \in 1..Len(rHist) :
        rHist[i] = "success"
            => /\ i = Len(rHist)
               /\ rPc = "returned"
               /\ rReturned = [status |-> "success", attempt |-> i]
               /\ rWaits = i - 1

\* [blocked, blocked, success] with max_retries = 3: returned after 2 retries.
C2_Witness ==
    /\ rMax = DefaultMaxRetries
    /\ rHist = <<"blocked", "blocked", "success">>
    /\ rPc = "returned"
    /\ rReturned.status = "success"
    /\ rWaits = 2

\* C3: an attempt whose status is none of success, blocked, error is the last
\* one: its result has been returned as it is, with no wait after it, however
\* many attempts remained.
C3_OtherStatusStops ==
    \A i \in 1..Len(rHist) :
        rHist[i] \notin {"success", "blocked", "error"}
            => /\ i = Len(rHist)
               /\ rPc = "returned"
               /\ rReturned = [status |-> rHist[i], attempt |-> i]
               /\ rWaits = i - 1

\* A first attempt of another status, with two attempts left.
C3_Witness ==
    /\ rMax = DefaultMaxRetries
    /\ rHist = <<"pending">>
    /\ rPc = "returned"
    /\ rReturned = [status |-> "pending", attempt |-> 1]

\* C4: the wait before time.sleep lies in [8k, 15k] after a blocked attempt
\* number k and in [3, 6] after an error attempt, whatever k is.
C4_WaitRange ==
    rPc = "sleep" =>
        /\ rData.status = "blocked"
              => BlockedLo * rAttempt <= rWait /\ rWait <= BlockedHi * rAttempt
        /\ rData.status = "error" => ErrorLo <= rWait /\ rWait <= ErrorHi
        /\ Failing(rData.status)

\* Blocked on the second attempt, waiting the longest possible time.
C4_Witness ==
    /\ rPc = "sleep"
    /\ rData = [status |-> "blocked", attempt |-> 2]
    /\ rWait = BlockedHi * 2

\* C28: every wait of scrape_with_retry is followed by another attempt: when
\* the call returns, the number of waits is the number of attempts minus
\* one, and no wait follows the last attempt.
C28_WaitsBetweenAttempts ==
    (rPc = "returned" /\ rAttempt >= 1) => rWaits = rAttempt - 1

----------------------------------------------------------------------------
(* Claims about one call of get_amazon_buybox, under SpecExtract.          *)

Succeeded == xPc = "done" /\ xResult.status = "success"

\* The classification table of the specification: own seller first, then
\* the reference seller, then losing for a seller that is neither null nor
\* the text "Unknown".
ReferenceState(seller, is_reference, is_own) ==
    IF is_own THEN "winning"
    ELSE IF is_reference THEN "amazon"
    ELSE IF seller # None /\ Val(seller) # Unknown THEN "losing"
    ELSE "unknown"

\* C6: when the own-seller flag is false, the state get_amazon_buybox gives
\* equals the reference table: amazon if the reference-seller flag is true,
\* else losing exactly when the seller is non-null and not the text
\* "Unknown", else unknown.
C6_MatchesReferenceTable ==
    (Succeeded /\ ~xResult.is_my_buybox)
        => xResult.buybox_status =
               ReferenceState(xTrace.merged_seller, xResult.is_amazon_seller,
                              FALSE)

\* C8: in every result with outcome success the price is null or strictly
\* greater than 0, whichever strategy produced it.
C8_PriceNullOrPositive ==
    Succeeded => (xResult.buybox_price = None \/ Val(xResult.buybox_price) > 0)

\* C9: the merge fills price only if the primary price was missing and
\* seller only if the primary seller was missing; a non-null primary price
\* or seller is never replaced by the secondary value, and the fields the
\* document alone decides are as the document gives them.
C9_MergeFillsOnlyMissing ==
    Succeeded =>
        /\ xTrace.price # None => xTrace.merged_price = xTrace.price
        /\ xTrace.seller # None => xTrace.merged_seller = xTrace.seller
        /\ xResult.buybox_price = xTrace.merged_price
        /\ xResult.title = Title(xResp.doc)
        /\ xResult.rating = Rating(xResp.doc)
        /\ xResult.review_count = ReviewCount(xResp.doc)
        /\ xResult.availability = Availability(xResp.doc)

\* C10: get_offer_listing_data returns null only when neither price nor
\* seller is recovered from the first offer block; when one of them is
\* recovered the record it returns carries that field.
C10_PartialRecordReturned ==
    (xPc = "done" /\ xTrace.offer.called /\ xTrace.offer.block
     /\ (TruthyNum(xTrace.offer.price) \/ TruthyStr(xTrace.offer.seller)))
        => /\ xTrace.offer.returned # None
           /\ TruthyNum(xTrace.offer.price)
                  => Val(xTrace.offer.returned).price = xTrace.offer.price
           /\ TruthyStr(xTrace.offer.seller)
                  => Val(xTrace.offer.returned).seller = xTrace.offer.seller

ImageElement(doc) ==
    \E i \in DOMAIN Descendants(doc) :
        \/ HasId(Descendants(doc)[i], "img", "landingImage")
        \/ HasId(Descendants(doc)[i], "img", "imgBlkFront")

\* C11: for a fetched document (HTTP 200) get_amazon_buybox returns outcome
\* success whichever target elements or attributes are absent; an image
\* element with neither a source nor a dynamic-image attribute gives a null
\* image and still outcome success.
C11_AbsenceIsNotAnError ==
    (xPc = "done" /\ xResp.outcome = "200")
        => /\ xResult.status = "success"
           /\ (ImageElement(xResp.doc) /\ ImageUrl(xResp.doc).value = None)
                  => xResult.image_url = None

\* The first candidate that is a non-empty name, or None.
RECURSIVE FirstNonEmpty(_)
FirstNonEmpty(cands) ==
    IF cands = <<>> THEN None
    ELSE IF TruthyStr(Head(cands)) THEN Head(cands)
    ELSE FirstNonEmpty(Tail(cands))

FirstWins(first, seller) ==
    IF first # None THEN seller = first ELSE ~TruthyStr(seller)

\* C19: the seller of the primary page is the candidate of the first of the
\* seven strategies, in their order, that yields a non-empty name; no later
\* strategy replaces it; when none yields a name there is no seller, and if
\* the secondary source gives none either the result records "Unknown".
C19_FirstStrategyWins ==
    (xPc = "done" /\ xTrace.fetched) =>
        /\ FirstWins(FirstNonEmpty(SellerStrategies(xResp.doc)), xTrace.seller)
        /\ (Succeeded /\ ~TruthyStr(xTrace.merged_seller))
               => xResult.buybox_seller = Unknown

\* The first strategy finds an empty link, the sixth the name in the text.
C19_Witness ==
    /\ xPc = "done"
    /\ SellerProfileLink(xResp.doc) = Some(<<>>)
    /\ PageSoldBy(xResp.doc) = Some(AcmeTraders)
    /\ xTrace.seller = Some(AcmeTraders)
    /\ xResult.buybox_seller = AcmeTraders

\* C20: when neither the primary nor the secondary source yields a seller,
\* the result records the seller "Unknown", both flags false and the state
\* unknown, whatever MY_SELLER_NAME is.
C20_NoSellerIsUnknown ==
    (Succeeded /\ ~TruthyStr(xTrace.merged_seller)) =>
        /\ xResult.buybox_seller = Unknown
        /\ ~xResult.is_my_buybox
        /\ ~xResult.is_amazon_seller
        /\ xResult.buybox_status = "unknown"

\* C23: in every result of get_amazon_buybox the rating is null or a number
\* from 0 to 5.
C23_RatingInRange ==
    Succeeded =>
        \/ xResult.rating = None
        \/ Val(xResult.rating) >= 0 /\ Val(xResult.rating) <= 5 * Scale

\* C24: a call on the same responses with the same seller name returns the
\* same record at whatever time it is made.
C24_Deterministic ==
    xPc = "done" =>
        \A now \in 1..MaxClock :
            xResult = GetAmazonBuybox(TheAsin, CoZa, xResp, xOffer, xMyName, now)

----------------------------------------------------------------------------
(* Claims about the handlers that classify and store, under SpecStore.     *)

Classified(p) ==
    p.path \in {"lookup_buybox", "extension_scrape"} /\ p.buybox_status # NULL

\* C5: whenever the own-seller flag is true the state is winning, also when
\* the reference-seller flag is true too, in get_amazon_buybox (reached
\* through lookup_buybox) and in extension_scrape.
C5_OwnSellerWins ==
    (Classified(produced) /\ produced.is_mine)
        => produced.buybox_status = "winning"

C5_Witness ==
    /\ produced.path = "extension_scrape"
    /\ produced.is_mine
    /\ produced.is_amazon
    /\ produced.buybox_status = "winning"

OwnershipStates == {"winning", "amazon", "losing", "unknown"}

StoredStates == {Some(s) : s \in OwnershipStates}

C7_Domain ==
    /\ \A a \in DOMAIN tracked_asins :
           tracked_asins[a].buybox_status \in StoredStates
    /\ \A i \in DOMAIN price_history :
           price_history[i].status \in StoredStates
    /\ Classified(produced) => produced.buybox_status \in OwnershipStates

C7_SameTripleSameState ==
    (/\ Classified(produced) /\ Classified(produced')
     /\ produced.seller = produced'.seller
     /\ produced.is_amazon = produced'.is_amazon
     /\ produced.is_mine = produced'.is_mine)
        => produced.buybox_status = produced'.buybox_status

\* C7: in every record produced or stored by get_amazon_buybox,
\* extension_scrape or bulk_add_asins the state is one of winning, amazon,
\* losing, unknown, and two records with the same seller and the same two
\* flags carry the same state, so no status a caller supplies is stored.
C7_StateIsDerived == []C7_Domain /\ [][C7_SameTripleSameState]_vars

KnownColumns ==
    {"title", "buybox_price", "buybox_seller", "buybox_status", "rating",
     "review_count", "availability"}

FailedLookupOf(a) ==
    /\ produced' = Unclassified("lookup_buybox", Ok)
    /\ completed'.asin = a

C16_Step ==
    \A a \in DOMAIN tracked_asins :
        FailedLookupOf(a) =>
            \A k \in KnownColumns : tracked_asins'[a][k] = tracked_asins[a][k]

\* C16: saving a result whose outcome is blocked or error for an identifier
\* that has a stored record leaves the title, price, seller, ownership
\* state, rating, review count and availability of that record as they
\* were.
C16_FailureKeepsRow == [][C16_Step]_vars

\* A priced row whose identifier was then looked up and blocked.
C16_Witness ==
    /\ produced = Unclassified("lookup_buybox", Ok)
    /\ completed.asin = TheAsin
    /\ TheAsin \in DOMAIN tracked_asins
    /\ tracked_asins[TheAsin].buybox_price = Some(1299 * Scale)
    /\ tracked_asins[TheAsin].buybox_status = Some("losing")

PlaceholderColumns == {"title", "buybox_price", "buybox_seller", "buybox_status"}

C29_Step ==
    produced' = Unclassified("bulk_add_asins", Ok) =>
        \A a \in DOMAIN tracked_asins :
            \A k \in PlaceholderColumns :
                tracked_asins'[a][k] = tracked_asins[a][k]

\* C29: bulk_add_asins leaves the title, price, seller and ownership state
\* of an identifier that already has a record as they were; the placeholder
\* values are written only for identifiers without a record.
C29_TrackedRowKept == [][C29_Step]_vars

----------------------------------------------------------------------------
(* Claims about check_and_alert, under SpecAlert.                          *)

Toggle(settings, status) ==
    IF status = "losing" THEN settings.alert_losing
    ELSE IF status = "winning" THEN settings.alert_winning
    ELSE IF status = "amazon" THEN settings.alert_amazon
    ELSE FALSE

ConfiguredChannels(settings) ==
    (IF WhatsAppConfigured(settings) THEN {"whatsapp"} ELSE {})
    \cup (IF TelegramConfigured(settings) THEN {"telegram"} ELSE {})

SentChannels(sent) == {sent[i].channel : i \in DOMAIN sent}

\* C17: check_and_alert sends nothing when the previous state equals the
\* new one; when they differ it sends only if the new state is losing,
\* winning or amazon and the toggle of that state is on, never for unknown;
\* and then one and the same message goes once to every channel whose two
\* credentials are set, and to no other.
C17_AlertOnlyOnChange ==
    aPc = "done" =>
        /\ aOld = NewStatus(aNew) => aSent = <<>>
        /\ aSent # <<>> =>
               /\ NewStatus(aNew) \in {"losing", "winning", "amazon"}
               /\ Toggle(aSettings, NewStatus(aNew))
        /\ (aOld # NewStatus(aNew) /\ Toggle(aSettings, NewStatus(aNew))) =>
               /\ SentChannels(aSent) = ConfiguredChannels(aSettings)
               /\ Len(aSent) = Cardinality(ConfiguredChannels(aSettings))
               /\ \A i, k \in DOMAIN aSent : aSent[i].message = aSent[k].message

\* A change to losing with both channels configured.
C17_Witness ==
    /\ aPc = "done"
    /\ aOld = "winning"
    /\ NewStatus(aNew) = "losing"
    /\ Len(aSent) = 2
    /\ aSent[1].channel = "whatsapp"
    /\ aSent[2].channel = "telegram"
    /\ aSent[1].message.kind = "LOSING BUYBOX"
    /\ Len(aSent[1].message.fields.title) = TitleMax

----------------------------------------------------------------------------
(* Claims about the bulk runs and the scheduled refresh, under SpecBulk.   *)

Exited(j) == j \in DOMAIN worker /\ worker[j].pc = "exit"

EntryAsins(entries) == [i \in DOMAIN entries |-> entries[i].asin]

\* C12: in bulk_lookup and in _run_bulk_job an exception raised while one
\* identifier is scraped or saved becomes a failed entry for it, the
\* remaining identifiers are still processed, and no exception reaches the
\* caller: every run ends with one entry per identifier.
C12_ExceptionsStayInside ==
    /\ \A j \in DOMAIN jobs :
           Exited(j) =>
               /\ jobs[j].error = NULL
               /\ worker[j].attempted = worker[j].asins
               /\ Len(jobs[j].results) + Len(jobs[j].failed) = jobs[j].total
    /\ bulk_response.path = "bulk_lookup" =>
           /\ ~bulk_response.raised
           /\ bulk_response.attempted = bulk_response.asins
           /\ Len(bulk_response.results) + Len(bulk_response.failed)
                  = Len(bulk_response.asins)

\* C13: after the worker has finished its k-th identifier and before it
\* starts the next, the registry entry has done = k and results and failed
\* hold the k entries of the thread; done, results and failed change only
\* together, after each identifier and not once at the end.
C13_ProgressPublished ==
    \A j \in DOMAIN jobs :
        /\ jobs[j].done = Len(jobs[j].results) + Len(jobs[j].failed)
        /\ worker[j].pc \in {"between", "scrape", "exit"} =>
               /\ jobs[j].done = worker[j].i
               /\ jobs[j].results = worker[j].results
               /\ jobs[j].failed = worker[j].failed
        /\ worker[j].pc = "publish" => jobs[j].done = worker[j].i

\* The first of two identifiers is finished and failed, the second is not
\* started.
C13_Witness ==
    \E j \in DOMAIN jobs :
        /\ worker[j].pc = "between"
        /\ jobs[j].status = "running"
        /\ jobs[j].total = 2
        /\ jobs[j].done = 1
        /\ Len(jobs[j].failed) = 1

RECURSIVE IsSubsequence(_, _)
IsSubsequence(s, t) ==
    IF s = <<>> THEN TRUE
    ELSE IF t = <<>> THEN FALSE
    ELSE IF Head(s) = Head(t) THEN IsSubsequence(Tail(s), Tail(t))
    ELSE IsSubsequence(s, Tail(t))

IsPrefix(s, t) == Len(s) <= Len(t) /\ s = SubSeq(t, 1, Len(s))

InOrder(attempted, results, failed, asins) ==
    /\ IsPrefix(attempted, asins)
    /\ IsSubsequence(EntryAsins(results), attempted)
    /\ IsSubsequence(EntryAsins(failed), attempted)

\* C14: the identifiers of a run are attempted in the order supplied, the
\* next one only when every earlier one has its entry, and the entries of
\* results and of failed keep the order of the input list.
C14_InOrder ==
    /\ \A j \in DOMAIN worker :
           /\ InOrder(worker[j].attempted, worker[j].results,
                      worker[j].failed, worker[j].asins)
           /\ worker[j].pc = "scrape" =>
                  /\ Len(worker[j].attempted) = worker[j].i
                  /\ Len(worker[j].results) + Len(worker[j].failed)
                         = worker[j].i
    /\ InOrder(bulk_response.attempted, bulk_response.results,
               bulk_response.failed, bulk_response.asins)

\* A job of two identifiers that ended with both in results.
C14_Witness ==
    \E j \in DOMAIN worker :
        /\ worker[j].pc = "exit"
        /\ Len(worker[j].asins) = 2
        /\ EntryAsins(worker[j].results) = worker[j].asins

StatusRank(status) ==
    IF status = "queued" THEN 0 ELSE IF status = "running" THEN 1 ELSE 2

C15_Domain ==
    \A j \in DOMAIN jobs :
        /\ jobs[j].status \in {"queued", "running", "done"}
        /\ 0 <= jobs[j].done
        /\ jobs[j].done <= jobs[j].total

C15_Step ==
    /\ \A j \in DOMAIN jobs :
           /\ j \in DOMAIN jobs'
           /\ StatusRank(jobs'[j].status) >= StatusRank(jobs[j].status)
           /\ StatusRank(jobs'[j].status) <= StatusRank(jobs[j].status) + 1
           /\ jobs'[j].done >= jobs[j].done
    /\ \A j \in DOMAIN jobs' \ DOMAIN jobs :
           jobs'[j].status = "queued" /\ jobs'[j].done = 0

\* C15: the status of a job is queued, running or done and moves only from
\* queued to running to done; its done counter starts at 0, never decreases
\* and never exceeds total.
C15_StatusAdvances == []C15_Domain /\ [][C15_Step]_vars

C15_Witness ==
    \E j \in DOMAIN jobs :
        /\ jobs[j].status = "done"
        /\ jobs[j].total = 2
        /\ jobs[j].done = 2

\* C18: every extraction a path completes - the single lookup, the
\* synchronous bulk run, the background job, the scheduled refresh - is
\* handed to check_and_alert together with the state stored before it.
C18_EveryExtractionHanded ==
    completed.path # NULL => completed.handed

ThreadEnded(j) == j \in DOMAIN worker /\ worker[j].pc \in {"exit", "raised"}

\* C26: every background job reaches status done with finished_at set and
\* its session closed, whatever scraping, saving or the creation of the
\* session raise; checked as: once the thread of a job has ended, the job
\* is done, finished_at is set and the session is closed.
C26_EndedJobIsDone ==
    \A j \in DOMAIN jobs :
        ThreadEnded(j) =>
            /\ jobs[j].status = "done"
            /\ jobs[j].finished_at # NULL
            /\ worker[j].session = "closed"

\* C27: in every response of bulk_status for an existing job, done is the
\* number of entries of results plus the number of entries of failed.
C27_ConsistentSnapshot ==
    (polled # None /\ ResponseBuilt(Val(polled))) =>
        Val(polled).body.done
            = Len(Val(polled).body.results) + Len(Val(polled).body.failed)

----------------------------------------------------------------------------
(* Claims about the waits of a bulk run, checked under SpecPace.           *)

Within(sleeps, lo, hi) == \E n \in DOMAIN sleeps : lo <= sleeps[n] /\ sleeps[n] <= hi

\* C25: between the end of the work on an identifier and the first attempt
\* on the next one a delay of 2 to 6 seconds is made, and after every 10th
\* identifier a cooldown of 10 to 20 seconds is made as well, in the
\* background job and in the synchronous bulk endpoints.
C25_DelayAndCooldown ==
    (pace_i >= 1 /\ pace_i < pace_total) =>
        /\ Within(pace_sleeps, 2, 6)
        /\ pace_i % 10 = 0 => Within(pace_sleeps, 10, 20)

----------------------------------------------------------------------------
(* Claims about parse_price, checked under SpecParse.                      *)

ParseReturned == pPc = "done"

\* The values the contract names for texts without a glyph, in thousandths.
PriceTable ==
    <<<<<<"1", " ", "6", "6", "0", ",", "0", "0">>, Some(1660 * Scale)>>,
      <<<<"1", ",", "6", "6", "0", ".", "0", "0">>, Some(1660 * Scale)>>,
      <<<<"5", "3", ".", "4", "8">>, Some(53480)>>,
      <<<<"1", ",", "5">>, Some(1500)>>,
      <<<<"1", " ", "0", "0", "0">>, Some(1000 * Scale)>>,
      <<<<" ", "7", ".", "5", "0", " ">>, Some(7500)>>,
      <<<<>>, None>>,
      <<<<"0">>, None>>,
      <<<<"0", ",", "0", "0">>, None>>,
      <<<<"-", "5">>, None>>,
      <<<<"a", "b", "c">>, None>>,
      <<<<"1", ".", "2", ".", "3">>, None>>,
      <<<<"1", ",", "2", "3", "4", ",", "5", "6", "7">>, None>>>>

\* C21: parse_price reads a comma without a dot as the decimal separator, a
\* comma with a dot as a thousands separator, strips spaces and commas
\* otherwise, returns null for "", "0", "-5" and text that does not parse,
\* and so returns null or a value above zero.
C21_SeparatorsAndSign ==
    ParseReturned =>
        /\ pOut = None \/ Val(pOut) > 0
        /\ pGlyph = <<>> =>
               \A i \in DOMAIN PriceTable :
                   pAmount = PriceTable[i][1] => pOut = PriceTable[i][2]

C21_Witness ==
    /\ ParseReturned
    /\ pGlyph = <<>>
    /\ pAmount = <<"1", " ", "6", "6", "0", ",", "0", "0">>
    /\ pOut = Some(1660 * Scale)

ClaimedGlyphs ==
    {<<"R">>, <<POUND>>, <<"$">>, <<EURO>>, <<"A", "$">>, <<"C", "$">>}

\* C22: for every glyph g of R, the pound sign, $, the euro sign, A$ and C$
\* and every amount text t that parses to a positive value on its own,
\* parse_price(g + t) equals parse_price(t).
C22_GlyphStripped ==
    (ParseReturned /\ pGlyph \in ClaimedGlyphs /\ ParsePrice(pAmount) # None)
        => pOut = ParsePrice(pAmount)

----------------------------------------------------------------------------
(* Claims about the scheduler, checked under SpecSched.                    *)

LastCall == sched_log[Len(sched_log)]

\* The settings in force after the last call: its arguments, or for
\* start_scheduler what the settings file gives.
RecentEnabled ==
    IF LastCall.op = "update_scheduler_interval" THEN Val(LastCall.enabled)
    ELSE IF settings_file.kind = "json" /\ settings_file.enabled # None
    THEN Val(settings_file.enabled)
    ELSE TRUE

RecentHours ==
    IF LastCall.op = "update_scheduler_interval"
    THEN Val(LastCall.interval_hours)
    ELSE IF settings_file.kind = "json" /\ settings_file.interval_hours # None
    THEN Val(settings_file.interval_hours)
    ELSE DefaultIntervalHours

RefreshJobs == {i \in DOMAIN scheduler_jobs : scheduler_jobs[i].id = RefreshAll}

\* C30: after start_scheduler and any sequence of update_scheduler_interval
\* calls at most one job with id refresh_all is registered; one is
\* registered exactly when the most recent settings are enabled, with the
\* most recent interval, and none after a call that disables.
C30_OneJobWhenEnabled ==
    sched_log # <<>> =>
        /\ Cardinality(RefreshJobs) <= 1
        /\ RecentEnabled => scheduler_jobs = <<RefreshJob(RecentHours)>>
        /\ ~RecentEnabled => scheduler_jobs = <<>>

\* Enabled at the start, disabled by a call, enabled again with another
\* interval.
C30_Witness ==
    /\ Len(sched_log) = 3
    /\ sched_log[2].enabled = Some(FALSE)
    /\ sched_log[3] = SchedCall("update_scheduler_interval", Some(24), Some(TRUE))
    /\ scheduler_running
    /\ scheduler_jobs = <<RefreshJob(24)>>

=============================================================================
